---- MODULE Spec2Model ----
(***************************************************************************)
(* Texas Hold'em hand engine of the BMT poker bot.                         *)
(*                                                                         *)
(* game.py is modelled by pure operators on a table record, main.py by the *)
(* actions that call them: the button/action handler, the hand start, the  *)
(* join, the showdown resolver and the AFK watchdog job.                   *)
(*                                                                         *)
(* The bot runs on one asyncio event loop.  Updates are handled one at a   *)
(* time (the Application is built without concurrent_updates), the         *)
(* watchdog is a job of the job queue: it runs whenever the handler in     *)
(* progress is suspended in an await, and a handler runs whenever the      *)
(* watchdog is suspended in an await.  Code between two awaits is one      *)
(* atomic step.                                                            *)
(*                                                                         *)
(* Players are numbered in the order they joined, which is the iteration   *)
(* order of the dict table.players.  Cards are counted, not named: the     *)
(* deck and the board are lengths, hole cards a count per player, and the  *)
(* (category, key) the evaluator gives a player's seven cards is drawn     *)
(* when the resolver asks for it.  The clock of the event loop stands still *)
(* between two runs of the watchdog job and moves one TimeStep when a run   *)
(* starts; it stops after MaxSweeps runs.                                   *)
(***************************************************************************)
EXTENDS Integers, Sequences, FiniteSets, TLC

\* ---------------------------------------------------------------- bounds
\* Users who press buttons, and seats they fill.
NumPlayers == 2
\* Hands started on a table (table.max_hands is 0, "free play", by default).
MaxHands == 1
\* The amount typed after "Custom" at the table.
RaiseUnit == 1000
\* The unit of the stacks and raises the engine is driven with directly.
BetUnit == 50
\* Seconds between two runs of the watchdog job that are looked at.
TimeStep == 150
MaxSweeps == 2
\* Hand values the evaluator can give: 0..MaxHandKey.
MaxHandKey == 1
\* Seconds between two runs of the watchdog job when every run of a short
\* while is looked at.
BriefStep == 60
\* The most users that are let to press Join Table where the seats are counted.
SeatsMax == 27

\* ------------------------------------------------------ program constants
AFK_WARNING_SECONDS == 120
AFK_KICK_SECONDS == 300
DEFAULT_STARTING_CHIPS == 1000
DECK_SIZE == 52

Stages == {"WAITING_FOR_PLAYERS", "PREFLOP", "FLOP", "TURN", "RIVER", "SHOWDOWN"}
Streets == {"FLOP", "TURN", "RIVER"}
BettingStages == {"PREFLOP", "FLOP", "TURN", "RIVER"}

\* The raise buttons of the raise menu.
RaiseButtons == {10000}
\* The amounts typed after "Custom".
CustomAmounts == {0, RaiseUnit}

None == 0

VARIABLES table, h, w, ev, now, db, eval

vars == <<table, h, w, ev, now, db, eval>>

\* ------------------------------------------------------------- helpers
Min(a, b) == IF a <= b THEN a ELSE b

RECURSIVE SumSeq(_, _)
SumSeq(f, n) == IF n = 0 THEN 0 ELSE f[n] + SumSeq(f, n - 1)

RECURSIVE Perms(_)
Perms(S) ==
  IF S = {} THEN {<<>>}
  ELSE UNION {{<<x>> \o p : p \in Perms(S \ {x})} : x \in S}

Ids(t) == 1..Len(t.players)

\* ------------------------------------------------------------- game.py
Player(chips, time) ==
  [chips |-> chips, current_bet |-> 0, folded |-> FALSE, hole_cards |-> 0,
   last_action_time |-> time, afk_warned |-> FALSE]

\* Table(chat_id, thread_id): the dataclass defaults.
NewTable ==
  [players |-> <<>>, deck |-> 0, community_cards |-> 0, pot |-> 0,
   stage |-> "WAITING_FOR_PLAYERS", turn_order |-> <<>>, current_turn_idx |-> 0,
   current_bet |-> 0, hands_played |-> 0,
   starting_chips |-> DEFAULT_STARTING_CHIPS, max_hands |-> 0, max_players |-> 0]

add_player(t, time) ==
  [t EXCEPT !.players = Append(@, Player(t.starting_chips, time))]

active_players(t) == {i \in Ids(t) : ~t.players[i].folded}

PlayerReset(p) == [p EXCEPT !.current_bet = 0, !.folded = FALSE, !.hole_cards = 0]

\* A reset that leaves the players who folded out of the new hand.
reset_keeps_folded(t, order) ==
  [t EXCEPT !.deck = DECK_SIZE, !.community_cards = 0, !.pot = 0, !.current_bet = 0,
            !.players = [i \in Ids(t) |->
                           [t.players[i] EXCEPT !.current_bet = 0, !.hole_cards = 0]],
            !.turn_order = order, !.current_turn_idx = 0, !.stage = "PREFLOP"]

\* `order` is the outcome of random.shuffle(ids).
reset_for_new_hand(t, order) ==
  LET t1 == [t EXCEPT !.deck = DECK_SIZE, !.community_cards = 0, !.pot = 0,
                      !.current_bet = 0,
                      !.players = [i \in Ids(t) |-> PlayerReset(t.players[i])]]
      t2 == IF Len(t.players) > 0
            THEN [t1 EXCEPT !.turn_order = order, !.current_turn_idx = 0]
            ELSE t1
  IN [t2 EXCEPT !.stage = "PREFLOP"]

deal_hole_cards(t) ==
  [t EXCEPT !.deck = @ - 2 * Len(t.players),
            !.players = [i \in Ids(t) |-> [t.players[i] EXCEPT !.hole_cards = 2]]]

\* A street that clears the players' bets and leaves the table's bet level.
ResetBets_players_only(t) ==
  [t EXCEPT !.players = [i \in Ids(t) |-> [t.players[i] EXCEPT !.current_bet = 0]]]

ResetBets(t) ==
  [t EXCEPT !.current_bet = 0,
            !.players = [i \in Ids(t) |-> [t.players[i] EXCEPT !.current_bet = 0]]]

\* A deal_flop that announces the turn.
deal_flop_as_turn(t) ==
  ResetBets([t EXCEPT !.deck = @ - 4, !.community_cards = @ + 3, !.stage = "TURN"])

deal_flop(t) ==
  ResetBets([t EXCEPT !.deck = @ - 4, !.community_cards = @ + 3, !.stage = "FLOP"])

\* A turn that reveals its card without burning one.
deal_turn_no_burn(t) ==
  ResetBets([t EXCEPT !.deck = @ - 1, !.community_cards = @ + 1, !.stage = "TURN"])

deal_turn(t) ==
  ResetBets([t EXCEPT !.deck = @ - 2, !.community_cards = @ + 1, !.stage = "TURN"])

\* A river that burns a card and reveals none.
deal_river_no_card(t) ==
  ResetBets([t EXCEPT !.deck = @ - 1, !.stage = "RIVER"])

deal_river(t) ==
  ResetBets([t EXCEPT !.deck = @ - 2, !.community_cards = @ + 1, !.stage = "RIVER"])

\* p and not p.folded and p.chips > 0
Eligible(t, uid) ==
  uid \in Ids(t) /\ ~t.players[uid].folded /\ t.players[uid].chips > 0

\* The position next_turn reaches after k increments of the index.
TurnPos(t, k) == (t.current_turn_idx + k) % Len(t.turn_order)

\* The increments after which next_turn finds a player it returns.
TurnHits(t) ==
  IF Len(t.turn_order) = 0 THEN {}
  ELSE {k \in 1..Len(t.turn_order) : Eligible(t, t.turn_order[TurnPos(t, k) + 1])}

FirstHit(S) == CHOOSE k \in S : \A j \in S : k <= j

\* A next_turn that starts its scan at the current position.
next_turn_from_current(t) ==
  LET n == Len(t.turn_order)
      hits == {k \in 0..(n - 1) : Eligible(t, t.turn_order[TurnPos(t, k) + 1])}
  IN IF n = 0 \/ hits = {} THEN t
     ELSE [t EXCEPT !.current_turn_idx = TurnPos(t, FirstHit(hits))]

\* next_turn: the table it leaves (the index moves) ...
next_turn(t) ==
  IF Len(t.turn_order) = 0 THEN t
  ELSE IF TurnHits(t) = {}
       THEN [t EXCEPT !.current_turn_idx = TurnPos(t, Len(t.turn_order))]
       ELSE [t EXCEPT !.current_turn_idx = TurnPos(t, FirstHit(TurnHits(t)))]

\* ... and the identity it returns.
next_turn_id(t) ==
  IF TurnHits(t) = {} THEN None
  ELSE t.turn_order[TurnPos(t, FirstHit(TurnHits(t))) + 1]

\* A getter that never finds the player at the index fit to act.
AtIndexEligible_never(t) == FALSE

\* The test of current_player_id on the player at the index.
AtIndexEligible(t) ==
  Len(t.turn_order) > 0 /\ Eligible(t, t.turn_order[t.current_turn_idx + 1])

\* A getter that always hands the turn on.
current_player_always_next(t) == next_turn(t)

\* current_player_id: the table it leaves (it calls next_turn) ...
current_player(t) ==
  IF Len(t.turn_order) = 0 \/ AtIndexEligible(t) THEN t ELSE next_turn(t)

\* ... and the identity it returns.
current_player_id(t) ==
  IF Len(t.turn_order) = 0 THEN None
  ELSE IF AtIndexEligible(t) THEN t.turn_order[t.current_turn_idx + 1]
  ELSE next_turn_id(t)

fold(t, uid) == [t EXCEPT !.players[uid].folded = TRUE]

\* check_or_call: the amount it returns ...
call_amount(t, uid) ==
  LET to_call == t.current_bet - t.players[uid].current_bet
  IN IF to_call <= 0 THEN 0 ELSE Min(to_call, t.players[uid].chips)

\* A call that also lifts the bet level of the table by what it paid.
check_or_call_lifts_level(t, uid) ==
  LET to_call == t.current_bet - t.players[uid].current_bet
      amount == IF to_call <= 0 THEN 0
                ELSE IF to_call <= t.players[uid].chips THEN to_call
                ELSE t.players[uid].chips
  IN [t EXCEPT !.players[uid].chips = @ - amount,
               !.players[uid].current_bet = @ + amount,
               !.pot = @ + amount,
               !.current_bet = @ + amount]

\* A call that takes the chips and forgets the pot.
check_or_call_forgets_pot(t, uid) ==
  LET amount == call_amount(t, uid)
  IN [t EXCEPT !.players[uid].chips = @ - amount,
               !.players[uid].current_bet = @ + amount]

\* ... and the table it leaves.
check_or_call(t, uid) ==
  LET amount == call_amount(t, uid)
  IN [t EXCEPT !.players[uid].chips = @ - amount,
               !.players[uid].current_bet = @ + amount,
               !.pot = @ + amount]

\* A raise that is not capped by the stack.
raise_total_uncapped(t, uid, amount) ==
  t.current_bet - t.players[uid].current_bet + amount

\* raise_bet: the total it returns ...
raise_total(t, uid, amount) ==
  LET to_call == t.current_bet - t.players[uid].current_bet
  IN Min(to_call + amount, t.players[uid].chips)

\* A raise that makes the raiser's bet the bet level of the table, higher or
\* not.
raise_bet_sets_level(t, uid, amount) ==
  LET total == raise_total(t, uid, amount)
      bet == t.players[uid].current_bet + total
  IN [t EXCEPT !.players[uid].chips = @ - total,
               !.players[uid].current_bet = bet,
               !.pot = @ + total,
               !.current_bet = bet]

\* A raise that leaves the bet level of the table where it was.
raise_bet_keeps_level(t, uid, amount) ==
  LET total == raise_total(t, uid, amount)
  IN [t EXCEPT !.players[uid].chips = @ - total,
               !.players[uid].current_bet = @ + total,
               !.pot = @ + total]

\* ... and the table it leaves.
raise_bet(t, uid, amount) ==
  LET total == raise_total(t, uid, amount)
      bet == t.players[uid].current_bet + total
  IN [t EXCEPT !.players[uid].chips = @ - total,
               !.players[uid].current_bet = bet,
               !.pot = @ + total,
               !.current_bet = IF bet > @ THEN bet ELSE @]

\* A round test that also waits for the players who are all-in.
everyone_matched_counting_all_in(t) ==
  LET active == active_players(t)
      bets == {t.players[i].current_bet : i \in active}
  IN IF Cardinality(active) <= 1 THEN TRUE ELSE Cardinality(bets) = 1

everyone_matched_or_folded(t) ==
  LET active == active_players(t)
      betting_players == {i \in active : t.players[i].chips > 0}
      bets == {t.players[i].current_bet : i \in betting_players}
  IN IF Cardinality(active) <= 1 THEN TRUE
     ELSE IF betting_players = {} THEN TRUE
     ELSE Cardinality(bets) = 1

\* An advance that does not ask whether the round is complete.
advance_stage_unasked(t) ==
  IF Cardinality(active_players(t)) = 1 THEN [t EXCEPT !.stage = "SHOWDOWN"]
  ELSE IF t.stage = "PREFLOP" THEN deal_flop(t)
  ELSE IF t.stage = "FLOP" THEN deal_turn(t)
  ELSE IF t.stage = "TURN" THEN deal_river(t)
  ELSE IF t.stage = "RIVER" THEN [t EXCEPT !.stage = "SHOWDOWN"]
  ELSE t

\* An advance that deals on when one player is left.
advance_stage_no_default(t) ==
  IF ~everyone_matched_or_folded(t) THEN t
  ELSE IF t.stage = "PREFLOP" THEN deal_flop(t)
  ELSE IF t.stage = "FLOP" THEN deal_turn(t)
  ELSE IF t.stage = "TURN" THEN deal_river(t)
  ELSE IF t.stage = "RIVER" THEN [t EXCEPT !.stage = "SHOWDOWN"]
  ELSE t

advance_stage_if_needed(t) ==
  IF ~everyone_matched_or_folded(t) THEN t
  ELSE IF Cardinality(active_players(t)) = 1 THEN [t EXCEPT !.stage = "SHOWDOWN"]
  ELSE IF t.stage = "PREFLOP" THEN deal_flop(t)
  ELSE IF t.stage = "FLOP" THEN deal_turn(t)
  ELSE IF t.stage = "TURN" THEN deal_river(t)
  ELSE IF t.stage = "RIVER" THEN [t EXCEPT !.stage = "SHOWDOWN"]
  ELSE t

\* ------------------------------------------------------------ storage.py
\* A row of the table `players` as ensure_player inserts it: the counters
\* hands_played and hands_won default to 0.  The column total_chips_won, a sum
\* that only the leaderboard reads, is not kept: the chips_delta of a call is
\* ev.award.  db is the rows of the users seated at the table, in the order
\* they joined.
NewRow == [hands_played |-> 0, hands_won |-> 0]

\* ensure_player for a user who has no row yet.
ensure_player(rows) == Append(rows, NewRow)

\* A record that counts the hand as won without looking at won_hand.
record_hand_result_always_won(rows, uid, won_hand) ==
  [rows EXCEPT ![uid] = [hands_played |-> @.hands_played + 1,
                         hands_won |-> @.hands_won + 1]]

\* The UPDATE touches the row of user_id, if there is one.
record_hand_result(rows, uid, won_hand) ==
  IF uid \notin DOMAIN rows THEN rows
  ELSE [rows EXCEPT ![uid] = [hands_played |-> @.hands_played + 1,
                              hands_won |-> @.hands_won + (IF won_hand THEN 1 ELSE 0)]]

\* The losers' records: record_hand_result(p.user_id, 0, False) for the
\* players 1..n other than the winner.
RECURSIVE record_losers(_, _, _)
record_losers(rows, n, winner) ==
  IF n = 0 THEN rows
  ELSE IF n = winner THEN record_losers(rows, n - 1, winner)
  ELSE record_hand_result(record_losers(rows, n - 1, winner), n, FALSE)

\* The records of one resolution: the winner's, then the losers'.  Nothing is
\* recorded when the resolver finds nobody to give the pot to.
record_hand_results(rows, t, winner) ==
  IF winner = None THEN rows
  ELSE record_losers(record_hand_result(rows, winner, TRUE), Len(t.players), winner)

\* The players other than the winner, in the order of table.players.values().
LosersOf(t, winner) == SelectSeq([i \in Ids(t) |-> i], LAMBDA i : i # winner)

\* record_hand_result(uid, 0, False) for the first k of ids.
RECURSIVE record_each(_, _, _)
record_each(rows, ids, k) ==
  IF k = 0 THEN rows
  ELSE record_hand_result(record_each(rows, ids, k - 1), ids[k], FALSE)

\* The records of one resolution when only the first `done` calls of
\* record_hand_result return and the next one raises: each call commits on
\* its own.
record_hand_results_upto(rows, t, winner, done) ==
  IF done = 0 THEN rows
  ELSE record_each(record_hand_result(rows, winner, TRUE), LosersOf(t, winner),
                   Min(done - 1, Len(LosersOf(t, winner))))

\* ------------------------------------------- main.py: the hand evaluator
\* A card code is the string game.create_deck builds, the rank then the suit,
\* kept as the sequence of its characters: <<"A", "H">>, <<"1", "0", "S">>.
SUITS == <<"C", "D", "H", "S">>

RANKS ==
  << <<"2">>, <<"3">>, <<"4">>, <<"5">>, <<"6">>, <<"7">>, <<"8">>, <<"9">>,
     <<"1", "0">>, <<"J">>, <<"Q">>, <<"K">>, <<"A">> >>

CARD_RANKS ==
  (<<"2">> :> 2) @@ (<<"3">> :> 3) @@ (<<"4">> :> 4) @@ (<<"5">> :> 5) @@
  (<<"6">> :> 6) @@ (<<"7">> :> 7) @@ (<<"8">> :> 8) @@ (<<"9">> :> 9) @@
  (<<"1", "0">> :> 10) @@ (<<"J">> :> 11) @@ (<<"Q">> :> 12) @@
  (<<"K">> :> 13) @@ (<<"A">> :> 14)

Range(s) == {s[i] : i \in DOMAIN s}

\* create_deck before the shuffle: every rank of a suit, suit after suit.
create_deck ==
  [i \in 1..DECK_SIZE |->
     RANKS[((i - 1) % Len(RANKS)) + 1] \o <<SUITS[((i - 1) \div Len(RANKS)) + 1]>>]

\* The code of a card to its rank and suit.  The codes of the deck carry no
\* blanks and no lower case, so strip and upper leave them as they are.
parse_card(code) ==
  IF Len(code) = 3
  THEN <<CARD_RANKS[SubSeq(code, 1, 2)], code[3]>>
  ELSE <<CARD_RANKS[<<code[1]>>], code[2]>>

\* sorted(..., reverse=True) of a list of numbers.
sorted_desc(s) == SortSeq(s, LAMBDA a, b : a > b)

\* sorted(set(...), reverse=True).
RECURSIVE set_desc(_)
set_desc(S) ==
  IF S = {} THEN <<>>
  ELSE LET m == CHOOSE x \in S : \A y \in S : y <= x
       IN  <<m>> \o set_desc(S \ {m})

\* A wheel read as an ace-high straight.
detect_straight_wheel_ace_high(ranks) ==
  IF Len(ranks) < 5 THEN None
  ELSE IF ranks[1] - ranks[Len(ranks)] = 4 /\ Cardinality(Range(ranks)) = 5
       THEN ranks[1]
       ELSE IF Range(ranks) = {14, 5, 4, 3, 2} THEN 14 ELSE None

\* detect_straight without the special case of the wheel.
detect_straight_no_wheel(ranks) ==
  IF Len(ranks) < 5 THEN None
  ELSE IF ranks[1] - ranks[Len(ranks)] = 4 /\ Cardinality(Range(ranks)) = 5
       THEN ranks[1]
       ELSE None

\* The high card of the straight the ranks form (distinct, highest first), or
\* None.
detect_straight(ranks) ==
  IF Len(ranks) < 5 THEN None
  ELSE IF ranks[1] - ranks[Len(ranks)] = 4 /\ Cardinality(Range(ranks)) = 5
       THEN ranks[1]
       ELSE IF Range(ranks) = {14, 5, 4, 3, 2} THEN 5 ELSE None

\* count_by_rank: how many cards of the hand have each rank.
count_by_rank(ranks) ==
  [r \in Range(ranks) |-> Cardinality({i \in DOMAIN ranks : ranks[i] = r})]

\* The items (rank, count) of count_by_rank, sorted by (count, rank), highest
\* first.
RECURSIVE ranks_by_count(_, _)
ranks_by_count(cnt, S) ==
  IF S = {} THEN <<>>
  ELSE LET r == CHOOSE x \in S :
                  \A y \in S : cnt[y] < cnt[x] \/ (cnt[y] = cnt[x] /\ y <= x)
       IN  << <<r, cnt[r]>> >> \o ranks_by_count(cnt, S \ {r})

\* The elements of s that are not in S, in their order.
NotIn(s, S) == SelectSeq(s, LAMBDA x : x \notin S)

MaxOf(s) == CHOOSE x \in Range(s) : \A y \in Range(s) : y <= x

MinOf(s) == CHOOSE x \in Range(s) : \A y \in Range(s) : x <= y

\* kickers[:n]
FirstN(s, n) == SubSeq(s, 1, Min(n, Len(s)))

\* evaluate_5card_hand: the category and the key of five cards.  The third
\* value, the text describe_hand builds for the chat, is not kept.
evaluate_5card_hand(cards) ==
  LET ranks == [i \in DOMAIN cards |-> parse_card(cards[i])[1]]
      suits == [i \in DOMAIN cards |-> parse_card(cards[i])[2]]
      ranks_sorted == sorted_desc(ranks)
      unique_ranks_desc == set_desc(Range(ranks))
      is_flush == Cardinality(Range(suits)) = 1
      straight_high == detect_straight(unique_ranks_desc)
      is_straight == straight_high # None
      cnt == count_by_rank(ranks)
      by_count == ranks_by_count(cnt, DOMAIN cnt)
      counts == sorted_desc([i \in DOMAIN by_count |-> by_count[i][2]])
      first == by_count[1][1]
      second == by_count[2][1]
  IN  IF is_straight /\ is_flush /\ straight_high = 14 /\ MinOf(ranks_sorted) >= 10
      THEN [cat |-> 9, key |-> <<9>>]
      ELSE IF is_straight /\ is_flush
      THEN [cat |-> 8, key |-> <<straight_high>>]
      ELSE IF counts[1] = 4
      THEN [cat |-> 7, key |-> <<first, MaxOf(NotIn(ranks, {first}))>>]
      ELSE IF counts[1] = 3 /\ counts[2] >= 2
      THEN [cat |-> 6, key |-> <<first, second>>]
      ELSE IF is_flush
      THEN [cat |-> 5, key |-> ranks_sorted]
      ELSE IF is_straight
      THEN [cat |-> 4, key |-> <<straight_high>>]
      ELSE IF counts[1] = 3
      THEN [cat |-> 3,
            key |-> <<first>> \o FirstN(sorted_desc(NotIn(ranks, {first})), 2)]
      ELSE IF counts[1] = 2 /\ counts[2] = 2
      THEN [cat |-> 2,
            key |-> <<IF first > second THEN first ELSE second,
                      IF first > second THEN second ELSE first,
                      MaxOf(NotIn(ranks, {first, second}))>>]
      ELSE IF counts[1] = 2
      THEN [cat |-> 1,
            key |-> <<first>> \o FirstN(sorted_desc(NotIn(ranks, {first})), 3)]
      ELSE [cat |-> 0, key |-> ranks_sorted]

\* itertools.combinations(s, k): the k-card choices from s, in its order.
RECURSIVE combinations(_, _)
combinations(s, k) ==
  IF k = 0 THEN << <<>> >>
  ELSE IF Len(s) < k THEN <<>>
  ELSE LET rest == combinations(Tail(s), k - 1)
       IN  [i \in DOMAIN rest |-> <<Head(s)>> \o rest[i]]
           \o combinations(Tail(s), k)

\* a > b for two tuples of numbers, as Python compares them.
RECURSIVE tuple_gt(_, _)
tuple_gt(a, b) ==
  IF a = <<>> THEN FALSE
  ELSE IF b = <<>> THEN TRUE
  ELSE IF a[1] # b[1] THEN a[1] > b[1]
  ELSE tuple_gt(Tail(a), Tail(b))

\* What evaluate_best_hand holds before its loop.
NoHand == [cat |-> -1, key |-> <<>>, combo |-> <<>>]

\* A loop that compares the categories and not the keys.
RECURSIVE best_from_by_category(_, _, _)
best_from_by_category(combos, i, best) ==
  IF i > Len(combos) THEN best
  ELSE LET r == evaluate_5card_hand(combos[i])
       IN  best_from_by_category(combos, i + 1,
             IF r.cat > best.cat
             THEN [cat |-> r.cat, key |-> r.key, combo |-> combos[i]]
             ELSE best)

\* The loop of evaluate_best_hand from combination i on: a combination
\* replaces the best one so far only when its (cat, key) is greater.
RECURSIVE best_from(_, _, _)
best_from(combos, i, best) ==
  IF i > Len(combos) THEN best
  ELSE LET r == evaluate_5card_hand(combos[i])
       IN  best_from(combos, i + 1,
             IF r.cat > best.cat \/ (r.cat = best.cat /\ tuple_gt(r.key, best.key))
             THEN [cat |-> r.cat, key |-> r.key, combo |-> combos[i]]
             ELSE best)

\* evaluate_best_hand: the category, the key and the five cards of the best
\* hand in board + hole.
evaluate_best_hand(board, hole) ==
  best_from(combinations(board \o hole, 5), 1, NoHand)

\* The evaluator's input and what it returned: eval.cards is the five cards
\* given to evaluate_5card_hand or the board given to evaluate_best_hand,
\* eval.hole the hole cards, eval.fn the function that has run ("" before).
NoEval == [cards |-> <<>>, hole |-> <<>>, fn |-> "", out |-> NoHand]

\* ------------------------------------------------ main.py: the resolver
\* What the last step did: the operation ("call", "fold", "raise",
\* "raise_allin" for an action that went through, "action" for one that was
\* turned down, the name of the step otherwise), the user it was for, how it
\* was answered, the chips check_or_call/raise_bet returned, the winner and the
\* amount handed to storage.record_hand_result, the stages the table was
\* assigned during the step, in order, what evaluate_best_hand gave the
\* players when the resolver asked, and the amount raise_bet was called with
\* when game.py is driven directly.
Event(op, who, result) ==
  [op |-> op, who |-> who, result |-> result,
   added |-> 0, winner |-> None, award |-> 0, path |-> <<>>, keys |-> <<>>,
   asked |-> 0]

Staged(e, old, new) == IF new # old THEN [e EXCEPT !.path = Append(@, new)] ELSE e

\* The (category, key) the resolver sorts by: -1 for "mysterious non-hand".
HandResult(t, keys, i) ==
  IF t.players[i].hole_cards = 0 \/ t.community_cards < 5 THEN -1 ELSE keys[i]

\* A resolver that takes the last of the best.
ShowdownWinner_last_of_best(t, keys) ==
  LET active == active_players(t)
      best == {i \in active : \A j \in active : HandResult(t, keys, j) <= HandResult(t, keys, i)}
  IN IF active = {} THEN None ELSE CHOOSE i \in best : \A j \in best : j <= i

\* A resolver that takes the first who has not folded.
ShowdownWinner_first_active(t, keys) ==
  LET active == active_players(t)
  IN IF active = {} THEN None ELSE CHOOSE i \in active : \A j \in active : i <= j

\* best_results.sort(reverse=True) is stable: of equal results the first in
\* player-iteration order stays first.
ShowdownWinner(t, keys) ==
  LET active == active_players(t)
      best == {i \in active : \A j \in active : HandResult(t, keys, j) <= HandResult(t, keys, i)}
  IN IF active = {} THEN None ELSE CHOOSE i \in best : \A j \in best : i <= j

\* handle_showdown_and_build_text: the table it leaves.
handle_showdown(t, keys) ==
  LET winner == ShowdownWinner(t, keys)
  IN IF winner = None THEN t
     ELSE [t EXCEPT !.players[winner].chips = @ + t.pot]

\* What evaluate_best_hand can give the players of the table.  It is called
\* for the players who have not folded, when they hold cards and the board is
\* full; the others are left at 0.
HandKeys(t) ==
  {keys \in [Ids(t) -> 0..MaxHandKey] :
     \A i \in Ids(t) :
       (t.players[i].folded \/ t.players[i].hole_cards = 0 \/ t.community_cards < 5)
         => keys[i] = 0}

\* ------------------------------------------- main.py: handle_action
\* Where the handler in progress is suspended: "idle" (no handler), "start"
\* (handle_start_hand, posting the cards), "loop" (the board post inside the
\* auto-advance loop), "board" (the board post after it), with the locals
\* pre_stage, prev_stage and all_allin_or_broke or no_next_player.
HIdle == [pc |-> "idle", pre_stage |-> "", prev_stage |-> "", auto |-> FALSE]

\* Lines 1266-1299: hand the turn over, or settle the showdown.
Finish(t, auto, e) ==
  LET t1 == IF t.stage # "SHOWDOWN" /\ ~auto THEN next_turn(t) ELSE t
  IN /\ h' = HIdle
     /\ IF t1.stage = "SHOWDOWN"
        THEN \E keys \in HandKeys(t1) :
               /\ table' = handle_showdown(t1, keys)
               /\ db' = record_hand_results(db, t1, ShowdownWinner(t1, keys))
               /\ ev' = [e EXCEPT !.keys = keys,
                                  !.winner = ShowdownWinner(t1, keys),
                                  !.award = IF ShowdownWinner(t1, keys) = None
                                            THEN 0 ELSE t1.pot]
        ELSE /\ table' = current_player(t1)
             /\ UNCHANGED db
             /\ ev' = e

\* Lines 1248-1264: the forced showdown on a full board, then the board post.
AfterLoop(t, pre, auto, e) ==
  LET forced == t.stage = "RIVER" /\ t.community_cards = 5 /\ auto
      t1 == IF forced THEN [t EXCEPT !.stage = "SHOWDOWN"] ELSE t
      e1 == Staged(e, t.stage, t1.stage)
  IN IF t1.stage # pre /\ t1.stage \in Streets
     THEN /\ table' = t1
          /\ h' = [pc |-> "board", pre_stage |-> pre, prev_stage |-> "", auto |-> auto]
          /\ UNCHANGED db
          /\ ev' = e1
     ELSE Finish(t1, auto, e1)

\* Lines 1232-1246: one pass of the auto-advance loop, up to its await or its
\* break.  A pass that changes the stage ends in a street (the await) or in
\* SHOWDOWN (the break), so no pass goes round without one of the two.
Loop(t, pre, auto, e) ==
  LET prev == t.stage
      t1 == advance_stage_if_needed(t)
      e1 == Staged(e, prev, t1.stage)
  IN IF t1.stage \in Streets /\ t1.stage # prev
     THEN /\ table' = t1
          /\ h' = [pc |-> "loop", pre_stage |-> pre, prev_stage |-> prev, auto |-> auto]
          /\ UNCHANGED db
          /\ ev' = e1
     ELSE AfterLoop(t1, pre, auto, e1)

\* Lines 1168-1170.
Touch(t, u) ==
  [t EXCEPT !.players[u].last_action_time = now, !.players[u].afk_warned = FALSE]

\* Lines 1177-1221: the table the action leaves ...
ApplyAction(t, u, act) ==
  IF t.players[u].chips <= 0 /\ act.kind # "raise_allin" THEN t
  ELSE IF act.kind = "call" THEN check_or_call(t, u)
  ELSE IF act.kind = "raise" THEN raise_bet(t, u, act.amt)
  ELSE IF act.kind = "raise_allin" THEN raise_bet(t, u, t.players[u].chips)
  ELSE IF act.kind = "fold" THEN fold(t, u)
  ELSE t

\* ... and `added`.
AddedBy(t, u, act) ==
  IF t.players[u].chips <= 0 /\ act.kind # "raise_allin" THEN 0
  ELSE IF act.kind = "call" THEN call_amount(t, u)
  ELSE IF act.kind = "raise" THEN raise_total(t, u, act.amt)
  ELSE IF act.kind = "raise_allin" THEN raise_total(t, u, t.players[u].chips)
  ELSE 0

\* A reply_text and a return: the action is turned down.
Reject(t, u, why) ==
  /\ table' = t
  /\ h' = HIdle
  /\ UNCHANGED db
  /\ ev' = Event("action", u, why)

\* Lines 1136-1230, on the table t the caller hands over.
handle_action(t, u, act) ==
  LET e == Event(act.kind, u, "accepted")
      t1 == current_player(t)
      current_id == current_player_id(t)
      t2 == Touch(t1, u)
      pre_stage == t2.stage
      t3 == ApplyAction(t2, u, act)
      t4 == advance_stage_if_needed(t3)
      e4 == Staged([e EXCEPT !.added = AddedBy(t2, u, act)], t3.stage, t4.stage)
      active == active_players(t4)
      all_allin_or_broke == active # {} /\ \A i \in active : t4.players[i].chips <= 0
      t5 == current_player(t4)
      no_next_player == current_player_id(t4) = None
      auto == all_allin_or_broke \/ no_next_player
  IN IF u \notin Ids(t) THEN Reject(t, u, "not_seated")
     ELSE IF t.players[u].folded THEN Reject(t, u, "folded")
     ELSE IF current_id # None /\ current_id # u THEN Reject(t1, u, "not_turn")
     ELSE IF t1.stage = "SHOWDOWN" THEN Reject(t1, u, "hand_over")
     ELSE IF auto THEN Loop(t5, pre_stage, auto, e4)
     ELSE AfterLoop(t5, pre_stage, auto, e4)

\* button_handler lines 617-620: any button refreshes the presser's timestamp.
Pressed(t, u) ==
  IF u \in Ids(t) THEN [t EXCEPT !.players[u].last_action_time = now] ELSE t

Users == 1..NumPlayers

\* button_handler lines 970-982: "act:call" and "act:fold".
ActButton(u, kind) ==
  LET act == [kind |-> kind, amt |-> 0]
      t0 == Pressed(table, u)
  IN /\ h.pc = "idle"
     /\ UNCHANGED <<w, now, eval>>
     /\ IF u \notin Ids(t0) THEN Reject(t0, u, "not_seated")
        ELSE IF current_player_id(t0) # None /\ current_player_id(t0) # u
             THEN Reject(current_player(t0), u, "not_turn")
        ELSE handle_action(current_player(t0), u, act)

\* button_handler lines 934-948: "raiseamt:<n>" and "raiseamt:all".
RaiseButton(u, act) ==
  /\ h.pc = "idle"
  /\ UNCHANGED <<w, now, eval>>
  /\ handle_action(Pressed(table, u), u, act)

\* handle_custom_raise_input: the amount typed after "Custom".
CustomRaise(u, amt) ==
  /\ h.pc = "idle"
  /\ UNCHANGED <<w, now, eval>>
  /\ handle_action(table, u, [kind |-> "raise", amt |-> amt])

\* handle_action resumes after the board post inside the loop (line 1245).
ResumeLoop ==
  LET e == Event("resume_loop", None, "accepted")
  IN /\ h.pc = "loop"
     /\ UNCHANGED <<w, now, eval>>
     /\ IF table.stage = h.prev_stage \/ table.stage = "SHOWDOWN"
        THEN AfterLoop(table, h.pre_stage, h.auto, e)
        ELSE Loop(table, h.pre_stage, h.auto, e)

\* handle_action resumes after the board post of line 1258.
ResumeBoard ==
  /\ h.pc = "board"
  /\ UNCHANGED <<w, now, eval>>
  /\ Finish(table, h.auto, Event("resume_board", None, "accepted"))

\* ------------------------------------- main.py: the other button presses
\* button_handler lines 761-814: "join_table" pressed by a user not yet seated.
\* The new player is the next in iteration order.
JoinTable ==
  /\ h.pc = "idle"
  /\ table.max_players = 0 \/ Len(table.players) < table.max_players
  /\ Len(table.players) < NumPlayers
  /\ table' = add_player(table, now)
  /\ db' = ensure_player(db)
  /\ ev' = Event("join", Len(table.players) + 1, "accepted")
  /\ UNCHANGED <<h, w, now, eval>>

\* handle_start_hand lines 1022-1048, up to the await of the first card post.
\* A start that is refused (match finished, nobody seated) changes nothing.
StartNow ==
  /\ h.pc = "idle"
  /\ ~(table.max_hands # 0 /\ table.hands_played >= table.max_hands)
  /\ Len(table.players) >= 1
  /\ UNCHANGED <<w, now, db, eval>>
  /\ \E order \in Perms(Ids(table)) :
       LET t1 == [table EXCEPT !.hands_played = @ + 1]
           t2 == deal_hole_cards(reset_for_new_hand(t1, order))
           t3 == [t2 EXCEPT !.players =
                    [i \in Ids(t2) |-> [t2.players[i] EXCEPT
                                          !.last_action_time = now,
                                          !.afk_warned = FALSE]]]
       IN /\ table' = t3
          /\ h' = [HIdle EXCEPT !.pc = "start"]
          /\ ev' = Staged(Event("start_hand", None, "accepted"),
                          table.stage, t3.stage)

\* The starts of the first MaxHands hands of the table.
StartHand == table.hands_played < MaxHands /\ StartNow

\* handle_start_hand line 1078, after the card posts: current_player_id().
ResumeStart ==
  /\ h.pc = "start"
  /\ table' = current_player(table)
  /\ h' = HIdle
  /\ ev' = Event("resume_start", None, "accepted")
  /\ UNCHANGED <<w, now, db, eval>>

\* ------------------------------------------- main.py: afk_watcher_job
\* The run of the job in progress: the next position of
\* list(table.players.values()) it looks at (0: no run in progress), the local
\* `changed`, the length of the list, and what the table held when the run
\* last folded a player: the stage, the pot, the stacks, the board and who had
\* not folded.  `warnings` is a log of the warnings the job has posted, to
\* whom and at which clock reading, kept only where the runs of the job are
\* followed with a log (WarnLogged).
NoFold == [stage |-> "", pot |-> 0, chips |-> <<>>, cards |-> 0, active |-> {}]

AtFold(t) ==
  [stage |-> t.stage, pot |-> t.pot, chips |-> [i \in Ids(t) |-> t.players[i].chips],
   cards |-> t.community_cards, active |-> active_players(t)]

WIdle == [pc |-> 0, changed |-> FALSE, n |-> 0, at_fold |-> NoFold, warnings |-> {}]

\* Line 440: a run that starts reads the clock, one step after the run before.
SweepNow == IF w.pc = 0 THEN now + TimeStep ELSE now

Sweep ==
  IF w.pc = 0
  THEN [pc |-> 1, changed |-> FALSE, n |-> Len(table.players), at_fold |-> NoFold,
        warnings |-> w.warnings]
  ELSE w

\* A kick that comes as early as the warning.
ToFold_at_warning(t, i, clk) ==
  ~t.players[i].folded /\ clk - t.players[i].last_action_time >= AFK_WARNING_SECONDS

\* Line 459, for a run that read the clock at clk.
ToFold(t, i, clk) ==
  ~t.players[i].folded /\ clk - t.players[i].last_action_time >= AFK_KICK_SECONDS

\* Line 476.
ToWarn(t, i, clk) ==
  /\ ~t.players[i].folded
  /\ clk - t.players[i].last_action_time < AFK_KICK_SECONDS
  /\ clk - t.players[i].last_action_time >= AFK_WARNING_SECONDS
  /\ ~t.players[i].afk_warned

\* The players of the run still to be folded or warned.
Pending(clk) ==
  {i \in Sweep.pc..Sweep.n : ToFold(table, i, clk) \/ ToWarn(table, i, clk)}

NextPending(clk) == CHOOSE i \in Pending(clk) : \A j \in Pending(clk) : i <= j

\* A fold that waits for its notice to be sent.
Fold_after_notice(clk, notice) ==
  /\ now' = clk
  /\ Pending(clk) # {}
  /\ ToFold(table, NextPending(clk), clk)
  /\ table' = IF notice = "accepted" THEN fold(table, NextPending(clk)) ELSE table
  /\ w' = [pc |-> NextPending(clk) + 1, changed |-> notice = "accepted", n |-> Sweep.n,
           at_fold |-> AtFold(table), warnings |-> Sweep.warnings]
  /\ ev' = Event("afk_fold", NextPending(clk), notice)
  /\ UNCHANGED <<h, db, eval>>

\* Lines 447-473: on to the next player to fold, up to the await of the notice;
\* `notice` is how send_message ends: "accepted", or "send_failed" when it
\* raises and the except clause passes.
Fold(clk, notice) ==
  /\ now' = clk
  /\ Pending(clk) # {}
  /\ ToFold(table, NextPending(clk), clk)
  /\ table' = fold(table, NextPending(clk))
  /\ w' = [pc |-> NextPending(clk) + 1, changed |-> TRUE, n |-> Sweep.n,
           at_fold |-> AtFold(fold(table, NextPending(clk))),
           warnings |-> Sweep.warnings]
  /\ ev' = Event("afk_fold", NextPending(clk), notice)
  /\ UNCHANGED <<h, db, eval>>

FoldAt(clk) == Fold(clk, "accepted")

\* Lines 447-488: on to the next player to warn, up to the await of the notice;
\* `log` is the log of warnings after it, `notice` how send_message ends.
Warn(clk, log, notice) ==
  /\ now' = clk
  /\ Pending(clk) # {}
  /\ ToWarn(table, NextPending(clk), clk)
  /\ table' = [table EXCEPT !.players[NextPending(clk)].afk_warned = TRUE]
  /\ w' = [pc |-> NextPending(clk) + 1, changed |-> Sweep.changed, n |-> Sweep.n,
           at_fold |-> Sweep.at_fold, warnings |-> log]
  /\ ev' = Event("afk_warn", NextPending(clk), notice)
  /\ UNCHANGED <<h, db, eval>>

WarnAt(clk) == Warn(clk, Sweep.warnings, "accepted")

\* The same with the warning entered in the log.
WarnLogged(clk) ==
  Warn(clk, Sweep.warnings \cup {<<NextPending(clk), clk>>}, "accepted")

\* Lines 497-514: the last player standing takes the pot.
default_win(t, winner) ==
  [t EXCEPT !.players[winner].chips = @ + t.pot, !.stage = "SHOWDOWN", !.pot = 0]

\* Lines 490-543: the rest of the player loop and the resolution of the run;
\* `done` is the number of calls of storage.record_hand_result that return
\* before one raises (all of them: the number of players), `notice` how the
\* send_message of the default win ends.
Resolve(clk, done, notice) ==
  LET active == active_players(table)
      winner == CHOOSE i \in active : TRUE
      e == Event("afk_advance", None, "accepted")
  IN /\ now' = clk
     /\ Pending(clk) = {}
     /\ w' = [WIdle EXCEPT !.warnings = Sweep.warnings]
     /\ UNCHANGED <<h, eval>>
     /\ IF ~Sweep.changed
        THEN /\ UNCHANGED <<table, db>>
             /\ ev' = Event("afk_quiet", None, "accepted")
        ELSE IF Cardinality(active) = 1
        THEN /\ table' = default_win(table, winner)
             /\ db' = record_hand_results_upto(db, table, winner, done)
             /\ ev' = Staged([e EXCEPT !.op = "afk_default_win", !.winner = winner,
                                       !.award = table.pot, !.result = notice],
                             table.stage, "SHOWDOWN")
        ELSE /\ table' = advance_stage_if_needed(table)
             /\ UNCHANGED db
             /\ ev' = Staged(e, table.stage, advance_stage_if_needed(table).stage)

ResolveAt(clk) == Resolve(clk, Len(table.players), "accepted")

\* The runs of the job up to the time MaxSweeps * TimeStep.
WatchdogFold == SweepNow <= MaxSweeps * TimeStep /\ FoldAt(SweepNow)

WatchdogWarn == SweepNow <= MaxSweeps * TimeStep /\ WarnAt(SweepNow)

WatchdogResolve == SweepNow <= MaxSweeps * TimeStep /\ ResolveAt(SweepNow)

\* --------------------------------------------- the bot on one table
Init ==
  /\ table = NewTable
  /\ h = HIdle
  /\ w = WIdle
  /\ ev = Event("init", None, "accepted")
  /\ now = 0
  /\ db = <<>>
  /\ eval = NoEval

\* What the users of `seats` can send to handle_action.
Actions(seats) ==
  \/ \E u \in seats, kind \in {"call", "fold"} : ActButton(u, kind)
  \/ \E u \in seats, amt \in RaiseButtons :
       RaiseButton(u, [kind |-> "raise", amt |-> amt])
  \/ \E u \in seats : RaiseButton(u, [kind |-> "raise_allin", amt |-> 0])
  \/ \E u \in seats, amt \in CustomAmounts : CustomRaise(u, amt)

Watchdog == WatchdogFold \/ WatchdogWarn \/ WatchdogResolve

Next ==
  \/ JoinTable
  \/ StartHand
  \/ ResumeStart
  \/ Actions(Users)
  \/ ResumeLoop
  \/ ResumeBoard
  \/ Watchdog

Spec == Init /\ [][Next]_vars

\* ------------------------------------------- game.py driven directly
\* The stacks the players of an engine table sit down with.
EngineStacks == {0, BetUnit, 2 * BetUnit}

\* The amounts raise_bet is called with.
EngineAmounts == {0, BetUnit}

\* A table of NumPlayers players right after reset_for_new_hand and
\* deal_hole_cards.
InitEngine ==
  /\ \E stacks \in [Users -> EngineStacks], order \in Perms(Users) :
       LET t0 == [NewTable EXCEPT !.players = [i \in Users |-> Player(stacks[i], 0)]]
       IN table = deal_hole_cards(reset_for_new_hand(t0, order))
  /\ h = HIdle
  /\ w = WIdle
  /\ ev = Event("reset_for_new_hand", None, "accepted")
  /\ now = 0
  /\ db = [i \in Users |-> NewRow]
  /\ eval = NoEval

EngineFold(u) ==
  /\ table' = fold(table, u)
  /\ ev' = Event("fold", u, "accepted")
  /\ UNCHANGED <<h, w, now, db, eval>>

EngineCheckOrCall(u) ==
  /\ table' = check_or_call(table, u)
  /\ ev' = [Event("check_or_call", u, "accepted") EXCEPT !.added = call_amount(table, u)]
  /\ UNCHANGED <<h, w, now, db, eval>>

EngineRaiseBet(u, amount) ==
  /\ table' = raise_bet(table, u, amount)
  /\ ev' = [Event("raise_bet", u, "accepted") EXCEPT
              !.added = raise_total(table, u, amount), !.asked = amount]
  /\ UNCHANGED <<h, w, now, db, eval>>

EngineAdvance ==
  /\ table' = advance_stage_if_needed(table)
  /\ ev' = Staged(Event("advance_stage_if_needed", None, "accepted"),
                  table.stage, advance_stage_if_needed(table).stage)
  /\ UNCHANGED <<h, w, now, db, eval>>

NextEngine ==
  \/ \E u \in Users : EngineFold(u)
  \/ \E u \in Users : EngineCheckOrCall(u)
  \/ \E u \in Users, amount \in EngineAmounts : EngineRaiseBet(u, amount)
  \/ EngineAdvance

SpecEngine == InitEngine /\ [][NextEngine]_vars

\* ------------------------------------------------------------- claims
\* pot + the chips of all players.
Total(t) == t.pot + SumSeq([i \in Ids(t) |-> t.players[i].chips], Len(t.players))

\* C1: whatever fold, check_or_call, raise_bet (amount >= 0) or
\* advance_stage_if_needed step is applied to a table after
\* reset_for_new_hand, pot + the sum of all players' chips is after the step
\* what it was before it, hence what it was right after the reset.
C1_ChipConservation == [][Total(table') = Total(table)]_vars

\* C1, reached: chips have been called into a pot that a raise opened, and
\* streets have been dealt since.
C1_Witness ==
  /\ ev.op = "check_or_call"
  /\ ev.added > 0
  /\ table.pot > ev.added
  /\ table.stage \in {"TURN", "RIVER"}

\* C7: after any check_or_call or raise_bet (amount >= 0) every player's
\* chips are >= 0, and the amount returned is between 0 and the chips the
\* acting player had before the call, and is what left that stack for the pot.
C7_NoNegativeStacks ==
  [][ev'.op \in {"check_or_call", "raise_bet"} =>
       /\ \A i \in Ids(table') : table'.players[i].chips >= 0
       /\ ev'.added >= 0
       /\ ev'.added <= table.players[ev'.who].chips
       /\ table'.players[ev'.who].chips = table.players[ev'.who].chips - ev'.added
       /\ table'.pot = table.pot + ev'.added]_vars

\* C7, reached: a raise that asked for more than the stack took all of it and
\* no more, and is still behind the bet of the table.
C7_Witness ==
  /\ ev.op = "raise_bet"
  /\ ev.added > 0
  /\ table.players[ev.who].chips = 0
  /\ table.players[ev.who].current_bet < table.current_bet

\* The three cases of the claim.
AtMostOneActive(t) == Cardinality({i \in Ids(t) : ~t.players[i].folded}) <= 1

NobodyCanBet(t) == \A i \in Ids(t) : t.players[i].folded \/ t.players[i].chips <= 0

BettorsAgree(t) ==
  \A i, j \in Ids(t) :
    (~t.players[i].folded /\ t.players[i].chips > 0 /\
     ~t.players[j].folded /\ t.players[j].chips > 0)
      => t.players[i].current_bet = t.players[j].current_bet

\* C9: everyone_matched_or_folded is true exactly when (a) at most one player
\* is non-folded, or (b) no non-folded player has chips > 0, or (c) all
\* non-folded players with chips > 0 have the same current bet.
C9_RoundComplete ==
  everyone_matched_or_folded(table)
    <=> (AtMostOneActive(table) \/ NobodyCanBet(table) \/ BettorsAgree(table))

\* C9, reached: two players are in the hand, one all-in behind the bet of the
\* other, who has chips left: the round is complete by (c) alone.
C9_Witness ==
  /\ ~AtMostOneActive(table)
  /\ ~NobodyCanBet(table)
  /\ everyone_matched_or_folded(table)
  /\ \E i, j \in Ids(table) :
       /\ ~table.players[i].folded /\ ~table.players[j].folded
       /\ table.players[i].chips = 0 /\ table.players[j].chips > 0
       /\ table.players[i].current_bet < table.players[j].current_bet

\* ----------------------------------------------- claims about the bot
\* The steps that are an action a user submitted: turned down ("action") or
\* gone through.
ActionOps == {"action", "call", "fold", "raise", "raise_allin"}

\* The steps of handle_action: an action that went through, or its resumption
\* after a board post.
HandlerOps == {"call", "fold", "raise", "raise_allin", "resume_loop", "resume_board"}

Rejections == {"not_seated", "folded", "not_turn", "hand_over"}

\* What the claims list of a table: chips, per-player bets, folded flags, pot,
\* table bet level, stage and community cards.
Ledger(t) ==
  [chips |-> [i \in Ids(t) |-> t.players[i].chips],
   bets |-> [i \in Ids(t) |-> t.players[i].current_bet],
   folded |-> [i \in Ids(t) |-> t.players[i].folded],
   pot |-> t.pot, current_bet |-> t.current_bet, stage |-> t.stage,
   community_cards |-> t.community_cards]

\* Table t2 is table t but for the turn index and the last_action_time of u.
SameButIndexAndStamp(t, t2, u) ==
  /\ Len(t2.players) = Len(t.players)
  /\ [t2 EXCEPT !.current_turn_idx = t.current_turn_idx,
                !.players = [i \in Ids(t) |->
                               IF i = u
                               THEN [t2.players[i] EXCEPT !.last_action_time =
                                                            t.players[i].last_action_time]
                               ELSE t2.players[i]]] = t

EligibleAt(t, k) == Eligible(t, t.turn_order[k + 1])

\* The turn index of t2 is that of t, or t's index is on a player who is folded
\* or without chips and t2's is on one who is neither.
IndexKeptOrSkipped(t, t2) ==
  \/ t2.current_turn_idx = t.current_turn_idx
  \/ /\ Len(t.turn_order) > 0
     /\ ~EligibleAt(t, t.current_turn_idx)
     /\ EligibleAt(t, t2.current_turn_idx)

\* C2: when the resolver picks a winner of a hand, the winner's chips increase
\* by the pot (all that was in it when the resolver was called) and the pot is
\* 0 when the resolver returns.
C2_ResolverSettles ==
  [][(table.stage \in BettingStages /\ ev'.op \in HandlerOps /\ ev'.winner # None) =>
       LET paid == IF ev'.who = ev'.winner THEN ev'.added ELSE 0
       IN /\ ev'.award = table.pot + ev'.added
          /\ table'.players[ev'.winner].chips
               = table.players[ev'.winner].chips - paid + ev'.award
          /\ table'.pot = 0]_vars

\* C4: during a hand no player action is processed between a forced fold of the watchdog and
\* the resolution of that run, and no mutating step of the watchdog runs while
\* an action is suspended between its stage advance and its turn hand-over.
C4_MutualExclusion ==
  [][table.stage \in BettingStages =>
       /\ (w.pc # 0 /\ w.changed) => ev'.op \notin {"call", "fold", "raise", "raise_allin"}
       /\ h.pc \in {"loop", "board"}
            => ev'.op \notin {"afk_fold", "afk_default_win", "afk_advance"}]_vars

\* u submits an action during a hand while the turn manager designates another.
OffTurn(t, u) ==
  /\ t.stage \in BettingStages
  /\ u \in Ids(t)
  /\ current_player_id(t) \notin {None, u}

\* C5 as stated: during a hand an action of a seated player who is not the
\* designated one is rejected, and chips, pot, bets, table bet level, folded
\* flags, stage, community cards and the current turn index are unchanged.
C5_OffTurnChangesNothing ==
  [][(ev'.op \in ActionOps /\ OffTurn(table, ev'.who)) =>
       /\ ev'.op = "action"
       /\ Ledger(table') = Ledger(table)
       /\ table'.current_turn_idx = table.current_turn_idx]_vars

\* C5, amended: during a hand an action of a seated player who is not the
\* designated one is rejected; it changes nothing in the table but the
\* presser's last_action_time and the turn index, and the index changes only
\* from a player who is folded or without chips to the designated player.
C5_OffTurnRejected ==
  [][(ev'.op \in ActionOps /\ OffTurn(table, ev'.who)) =>
       /\ ev'.op = "action"
       /\ ev'.result \in {"not_turn", "folded"}
       /\ SameButIndexAndStamp(table, table', ev'.who)
       /\ IndexKeptOrSkipped(table, table')
       /\ current_player_id(table') = current_player_id(table)
       /\ table'.current_turn_idx # table.current_turn_idx
            => table'.turn_order[table'.current_turn_idx + 1] = current_player_id(table)]_vars

\* C5, reached: during a hand, the player the watchdog has just folded presses
\* an action button and is told it is not their turn.
C5_Witness ==
  /\ ev.op = "action"
  /\ ev.result = "not_turn"
  /\ table.stage \in BettingStages
  /\ ev.who \in Ids(table)
  /\ table.players[ev.who].folded
  /\ w.pc # 0

\* u has folded, or the hand is over.
FoldedOrOver(t, u) ==
  \/ u \in Ids(t) /\ t.players[u].folded
  \/ t.stage = "SHOWDOWN"

\* C6 as stated: an action of a folded player, and any action at SHOWDOWN, is
\* rejected and leaves chips, pot, bets, folded flags, stage, community cards
\* and the turn index unchanged.
C6_FoldedOrOverChangesNothing ==
  [][(ev'.op \in ActionOps /\ FoldedOrOver(table, ev'.who)) =>
       /\ ev'.op = "action"
       /\ Ledger(table') = Ledger(table)
       /\ table'.current_turn_idx = table.current_turn_idx]_vars

\* C6, amended: an action of a folded player, and any action at SHOWDOWN, is
\* rejected; it changes nothing in the table but the presser's
\* last_action_time and the turn index, and the index changes only from a
\* player who is folded or without chips to one who is neither.
C6_FoldedOrOverRejected ==
  [][(ev'.op \in ActionOps /\ FoldedOrOver(table, ev'.who)) =>
       /\ ev'.op = "action"
       /\ ev'.result \in Rejections
       /\ SameButIndexAndStamp(table, table', ev'.who)
       /\ IndexKeptOrSkipped(table, table')]_vars

\* C6, reached: the hand is over, the index is on the player who has not folded,
\* and the player who folded is told so.
C6_Witness ==
  /\ ev.op = "action"
  /\ ev.result = "folded"
  /\ table.stage = "SHOWDOWN"
  /\ ev.who \in Ids(table)
  /\ table.players[ev.who].folded
  /\ Len(table.turn_order) > 0
  /\ EligibleAt(table, table.current_turn_idx)

\* One stage change of a step that op names.
StageStepOk(a, b, op) ==
  \/ <<a, b>> \in {<<"PREFLOP", "FLOP">>, <<"FLOP", "TURN">>,
                   <<"TURN", "RIVER">>, <<"RIVER", "SHOWDOWN">>}
  \/ a \in BettingStages /\ b = "SHOWDOWN"
  \/ op = "start_hand" /\ b = "PREFLOP"
  \/ a = "WAITING_FOR_PLAYERS"

\* C8: the stages a step assigns to a table on which a hand has been started
\* go, one after the other, PREFLOP->FLOP, FLOP->TURN, TURN->RIVER,
\* RIVER->SHOWDOWN or from a betting stage to SHOWDOWN, and the stage is
\* otherwise left alone; from SHOWDOWN only handle_start_hand, through
\* reset_for_new_hand, goes on, to PREFLOP.
C8_StageForward ==
  [][LET chain == <<table.stage>> \o ev'.path
     IN /\ \A k \in 1..(Len(chain) - 1) : StageStepOk(chain[k], chain[k + 1], ev'.op)
        /\ table'.stage = chain[Len(chain)]]_vars

\* C8, reached: a step of the action handler dealt two streets and went on to
\* SHOWDOWN with the board complete.
C8_Witness ==
  /\ table.stage = "SHOWDOWN"
  /\ table.community_cards = 5
  /\ Len(ev.path) >= 2
  /\ ev.path[Len(ev.path)] = "SHOWDOWN"

\* ------------------------------------------- three players on the river
RiverSeats == 1..(NumPlayers + 1)

\* Three players have sat down and a hand has been started; before the flop
\* the first of the turn order has raised by BetUnit and the others have
\* called, and flop and turn have been checked through: the river is open,
\* nobody has bet on it, the first player of the turn order is to act.
InitRiver ==
  /\ \E order \in Perms(RiverSeats) :
       LET t0 == [NewTable EXCEPT
                    !.players = [i \in RiverSeats |-> Player(DEFAULT_STARTING_CHIPS, 0)],
                    !.hands_played = 1]
           t1 == deal_hole_cards(reset_for_new_hand(t0, order))
           t2 == raise_bet(t1, order[1], BetUnit)
           t3 == check_or_call(check_or_call(t2, order[2]), order[3])
       IN table = deal_river(deal_turn(deal_flop(t3)))
  /\ h = HIdle
  /\ w = WIdle
  /\ ev = Event("resume_board", None, "accepted")
  /\ now = 0
  /\ db = [i \in RiverSeats |-> NewRow]
  /\ eval = NoEval

NextRiver == Actions(RiverSeats) \/ Watchdog

SpecRiver == InitRiver /\ [][NextRiver]_vars

\* C3: whenever a step takes the stage of a hand with chips in the pot to
\* SHOWDOWN and leaves a player who has not folded, that step hands the pot to
\* such a player: it is what the step reports as awarded, and the winner's
\* chips have grown by it.
C3_ShowdownSettles ==
  [][(table.stage \in BettingStages /\ table'.stage = "SHOWDOWN"
        /\ table.pot > 0 /\ active_players(table') # {}) =>
       /\ ev'.winner \in active_players(table')
       /\ ev'.award = table.pot + ev'.added
       /\ table'.players[ev'.winner].chips >= table.players[ev'.winner].chips + table.pot]_vars

\* --------------------------------------------- scenario B, all-in call
\* A hand has been started for P1, who sits with 50 chips, and P2, who sits
\* with 900; nobody has bet.
InitB ==
  /\ \E order \in Perms({1, 2}) :
       LET t0 == [NewTable EXCEPT !.players = <<Player(50, 0), Player(900, 0)>>,
                                  !.hands_played = 1]
       IN table = deal_hole_cards(reset_for_new_hand(t0, order))
  /\ h = HIdle
  /\ w = WIdle
  /\ ev = Event("resume_start", None, "accepted")
  /\ now = 0
  /\ db = [i \in 1..2 |-> NewRow]
  /\ eval = NoEval

NextB == Actions(Users) \/ ResumeLoop \/ ResumeBoard

SpecB == InitB /\ [][NextB]_vars

\* P1 is all-in with 50 in the pot and P2 still has its 900.
AllInOpen(t) ==
  /\ t.players[1].chips = 0
  /\ t.players[2].chips = 900
  /\ t.pot = 50
  /\ ~t.players[1].folded /\ ~t.players[2].folded

\* C10: run through handle_action from a bet level of 0, P1's all-in leaves
\* P1.chips = 0 and pot = 50 (the bet level of 50 that raise_bet sets is what
\* P2 is then asked to call); P2's call of the all-in pays 50 and makes the
\* pot 100; and with that call the hand goes on to SHOWDOWN without further
\* input: the call ends at SHOWDOWN or in the auto-advance loop.
C10_AllInCall ==
  [][/\ (table.pot = 0 /\ table.current_bet = 0 /\ table.players[1].chips = 50
           /\ ev'.op = "raise_allin" /\ ev'.who = 1) =>
          /\ table'.players[1].chips = 0
          /\ table'.pot = 50
     /\ (AllInOpen(table) /\ ev'.op = "call" /\ ev'.who = 2) =>
          /\ ev'.added = 50
          /\ table'.pot = 100
          /\ table'.stage = "SHOWDOWN" \/ h'.pc = "loop"]_vars

\* ------------------------------------------------ scenario A, basic hand
ScenarioSeats == {1, 2}

\* Two players with 1000 chips each right after reset_for_new_hand and
\* deal_hole_cards; there are no blinds.
InitA ==
  /\ \E order \in Perms(ScenarioSeats) :
       LET t0 == [NewTable EXCEPT
                    !.players = [i \in ScenarioSeats |-> Player(DEFAULT_STARTING_CHIPS, 0)]]
       IN table = deal_hole_cards(reset_for_new_hand(t0, order))
  /\ h = HIdle
  /\ w = WIdle
  /\ ev = Event("reset_for_new_hand", None, "accepted")
  /\ now = 0
  /\ db = [i \in ScenarioSeats |-> NewRow]
  /\ eval = NoEval

NextA ==
  \/ \E u \in ScenarioSeats : EngineFold(u)
  \/ \E u \in ScenarioSeats : EngineCheckOrCall(u)
  \/ \E u \in ScenarioSeats : EngineRaiseBet(u, 100)
  \/ EngineAdvance

SpecA == InitA /\ [][NextA]_vars

\* Nobody has folded and the stacks of the two players are a and b, in either
\* order of the players.
Stacks(t, a, b) ==
  /\ \A i \in Ids(t) : ~t.players[i].folded
  /\ \E i, j \in Ids(t) : i # j /\ t.players[i].chips = a /\ t.players[j].chips = b

AllBetsZero(t) == t.current_bet = 0 /\ \A i \in Ids(t) : t.players[i].current_bet = 0

\* C11: with two players at 1000 chips and no blinds, after the first raises
\* 100 that player has 900, the pot is 100, the bet level is 100 and the round
\* is still open; after the second then calls, that player has 900 and the pot
\* is 200 and the round is closed; advance_stage_if_needed then deals the flop:
\* exactly 3 community cards, stage FLOP, every bet and the bet level 0.
C11_ScenarioA ==
  [][/\ (table.stage = "PREFLOP" /\ table.pot = 0 /\ AllBetsZero(table)
           /\ Stacks(table, 1000, 1000) /\ ev'.op = "raise_bet") =>
          /\ table'.players[ev'.who].chips = 900
          /\ table'.pot = 100
          /\ table'.current_bet = 100
          /\ ~everyone_matched_or_folded(table')
          /\ advance_stage_if_needed(table') = table'
     /\ (table.stage = "PREFLOP" /\ table.pot = 100 /\ table.current_bet = 100
           /\ Stacks(table, 900, 1000) /\ ev'.op = "check_or_call"
           /\ table.players[ev'.who].chips = 1000) =>
          /\ table'.players[ev'.who].chips = 900
          /\ table'.pot = 200
          /\ Stacks(table', 900, 900)
          /\ everyone_matched_or_folded(table')
     /\ (table.stage = "PREFLOP" /\ table.pot = 200 /\ table.current_bet = 100
           /\ Stacks(table, 900, 900) /\ ev'.op = "advance_stage_if_needed") =>
          /\ table'.stage = "FLOP"
          /\ table'.community_cards = 3
          /\ AllBetsZero(table')
          /\ table'.pot = 200
          /\ Stacks(table', 900, 900)]_vars

\* C11, reached: the raise of 100 has been called and the flop dealt.
C11_Witness ==
  /\ ev.op = "advance_stage_if_needed"
  /\ ev.path = <<"FLOP">>
  /\ table.pot = 200
  /\ Stacks(table, 900, 900)
  /\ table.community_cards = 3

\* ------------------------------------------ scenario C, AFK default win
\* The run of the watchdog that ends with this step folded a player during a
\* hand and left r alone in the hand, and r has not folded since.
LeftAlone(r) ==
  /\ w.pc # 0
  /\ w.changed
  /\ w.at_fold.stage \in BettingStages
  /\ w.at_fold.active = {r}
  /\ w'.pc = 0
  /\ r \in Ids(table')
  /\ ~table'.players[r].folded

\* C12: when a run of the watchdog folds, during a hand, one of exactly two
\* non-folded players and leaves the other non-folded, then at the end of the run the remaining
\* player's chips are what they were at the fold plus the whole pot of then
\* (which may be 0), the pot is 0, the stage is SHOWDOWN and the community
\* cards are those of the fold.
C12_DefaultWin ==
  [][\A r \in 1..(NumPlayers + 1) :
       LeftAlone(r) =>
         /\ table'.players[r].chips = w.at_fold.chips[r] + w.at_fold.pot
         /\ table'.pot = 0
         /\ table'.stage = "SHOWDOWN"
         /\ table'.community_cards = w.at_fold.cards]_vars

\* C12 for a run that no handler runs into: nothing but the run's own steps
\* has touched the table since the fold.
C12_DefaultWinUndisturbed ==
  [][\A r \in 1..(NumPlayers + 1) :
       (LeftAlone(r) /\ AtFold(table) = w.at_fold) =>
         /\ table'.players[r].chips = w.at_fold.chips[r] + w.at_fold.pot
         /\ table'.pot = 0
         /\ table'.stage = "SHOWDOWN"
         /\ table'.community_cards = w.at_fold.cards]_vars

\* --------------------------------------------- claims about the resolver
\* The step ran handle_showdown_and_build_text and it picked a winner.
Resolved == ev'.op \in HandlerOps /\ ev'.winner # None

\* What the resolver sorts player i by, at the table the step leaves.
ResultOf(i) == HandResult(table', ev'.keys, i)

\* The non-folded players with the best result.
Best == {i \in active_players(table') :
           \A j \in active_players(table') : ResultOf(j) <= ResultOf(i)}

\* What player i paid into the pot in the step.
PaidBy(i) == IF ev'.who = i THEN ev'.added ELSE 0

\* C13: when two or more non-folded players have an identical best
\* (category, key), the resolver awards the full pot to exactly one of them,
\* the one that comes first in the player-iteration order of the table, and no
\* other player's chips change.
C13_TieToFirst ==
  [][(Resolved /\ Cardinality(Best) >= 2) =>
       /\ ev'.winner \in Best
       /\ \A i \in Best : ev'.winner <= i
       /\ ev'.award = table.pot + ev'.added
       /\ table'.players[ev'.winner].chips
            = table.players[ev'.winner].chips - PaidBy(ev'.winner) + ev'.award
       /\ \A i \in Ids(table') \ {ev'.winner} :
            table'.players[i].chips = table.players[i].chips - PaidBy(i)]_vars

\* C13, reached: on a full board the second and the third player tie with the
\* best hand, the first has a worse one, and the second has taken a pot.
C13_Witness ==
  /\ ev.winner = 2
  /\ ev.award > 0
  /\ table.community_cards = 5
  /\ Len(ev.keys) = 3
  /\ active_players(table) = {1, 2, 3}
  /\ ev.keys[2] = ev.keys[3]
  /\ ev.keys[1] < ev.keys[2]

\* C14: at a showdown with a full 5-card board the player credited with the
\* pot has not folded and has a (category, key) greater than or equal to that
\* of every other non-folded player; a folded player never receives the pot.
C14_BestWins ==
  [][(Resolved /\ table'.community_cards = 5) =>
       /\ ~table'.players[ev'.winner].folded
       /\ \A j \in active_players(table') : ResultOf(j) <= ResultOf(ev'.winner)
       /\ \A i \in Ids(table') :
            table'.players[i].folded
              => table'.players[i].chips = table.players[i].chips - PaidBy(i)]_vars

\* C14, reached: on a full board the third player has beaten the second and
\* taken a pot that the first, who has folded, paid into.
C14_Witness ==
  /\ ev.winner = 3
  /\ ev.award > 0
  /\ table.community_cards = 5
  /\ active_players(table) = {2, 3}
  /\ Len(ev.keys) = 3
  /\ ev.keys[2] < ev.keys[3]
  /\ table.players[1].folded
  /\ table.players[1].chips < DEFAULT_STARTING_CHIPS

\* ------------------------------------------------ claims about storage
\* The step recorded a hand: once for every seated player, as won for the
\* winner alone.
RecordedOnce ==
  /\ DOMAIN db' = DOMAIN db
  /\ \A i \in DOMAIN db :
       /\ db'[i].hands_played = db[i].hands_played + 1
       /\ db'[i].hands_won = db[i].hands_won + (IF i = ev'.winner THEN 1 ELSE 0)

\* C15: for each hand record_hand_result is invoked exactly once per seated
\* player: a step that resolves a hand, by showdown or by default win,
\* records every seated player once, the winner as having won the amount the
\* step credited and the others as having lost; and no player has more records
\* than hands have been started at the table.
C15_OneRecordPerHand ==
  [][/\ ev'.winner # None =>
          /\ RecordedOnce
          /\ table'.players[ev'.winner].chips
               = table.players[ev'.winner].chips - PaidBy(ev'.winner) + ev'.award
     /\ \A i \in DOMAIN db' : db'[i].hands_played <= table'.hands_played]_vars

\* C15 for one resolution alone.
C15_EachResolutionRecordsOnce ==
  [][ev'.winner # None =>
       /\ RecordedOnce
       /\ table'.players[ev'.winner].chips
            = table.players[ev'.winner].chips - PaidBy(ev'.winner) + ev'.award]_vars

\* ----------------------------------------------- claims about the board
\* C16: in every reachable state the number of community cards matches the
\* stage: 0 in WAITING_FOR_PLAYERS and PREFLOP, 3 in FLOP, 4 in TURN, 5 in
\* RIVER, and one of 0, 3, 4 or 5 in SHOWDOWN.
C16_BoardMatchesStage ==
  /\ table.stage \in {"WAITING_FOR_PLAYERS", "PREFLOP"} => table.community_cards = 0
  /\ table.stage = "FLOP" => table.community_cards = 3
  /\ table.stage = "TURN" => table.community_cards = 4
  /\ table.stage = "RIVER" => table.community_cards = 5
  /\ table.stage = "SHOWDOWN" => table.community_cards \in {0, 3, 4, 5}

\* C16, reached: the auto-advance loop has dealt the river and the forced
\* showdown has ended the hand on a full board.
C16_Witness ==
  /\ table.stage = "SHOWDOWN"
  /\ table.community_cards = 5
  /\ table.hands_played = 1
  /\ ev.op = "resume_loop"
  /\ ev.winner # None


\* ------------------------------------------- the evaluator on its own
\* The cards the five-card hands are drawn from, in the four suits: the low
\* deck holds the ace and the ranks up to LowRankMax, the high deck the ranks
\* from HighRankMin on.
LowRankMax == 5

HighRankMin == 9

LowDeck ==
  SelectSeq(create_deck,
            LAMBDA c : parse_card(c)[1] <= LowRankMax \/ parse_card(c)[1] = 14)

HighDeck == SelectSeq(create_deck, LAMBDA c : parse_card(c)[1] >= HighRankMin)

\* The example of the wheel: the board 3C 4S 5H 9D KC and the hole cards
\* AH 2D, and the first BestExtra cards of the deck that are not among them.
ExampleBoard == << <<"3", "C">>, <<"4", "S">>, <<"5", "H">>, <<"9", "D">>, <<"K", "C">> >>

ExampleHole == << <<"A", "H">>, <<"2", "D">> >>

BestExtra == 4

BestDeck ==
  LET others == SelectSeq(create_deck,
                          LAMBDA c : c \notin Range(ExampleBoard \o ExampleHole))
  IN  ExampleBoard \o ExampleHole \o SubSeq(others, 1, BestExtra)

\* Five cards of LowDeck or of HighDeck, or a board of five cards and two hole cards of
\* BestDeck, are about to be evaluated.
InitEval ==
  /\ table = NewTable
  /\ h = HIdle
  /\ w = WIdle
  /\ ev = Event("init", None, "accepted")
  /\ now = 0
  /\ db = <<>>
  /\ \/ \E c \in Range(combinations(LowDeck, 5)) \cup Range(combinations(HighDeck, 5)) :
          eval = [NoEval EXCEPT !.cards = c]
     \/ \E c \in Range(combinations(BestDeck, 7)) :
          \E p \in 1..7, q \in 1..7 :
            /\ p < q
            /\ eval = [NoEval EXCEPT
                         !.cards = NotIn(c, {c[p], c[q]}),
                         !.hole = <<c[p], c[q]>>]

Evaluate5 ==
  /\ eval.fn = ""
  /\ eval.hole = <<>>
  /\ eval' = [eval EXCEPT !.fn = "evaluate_5card_hand",
                          !.out = LET r == evaluate_5card_hand(eval.cards)
                                  IN  [cat |-> r.cat, key |-> r.key,
                                       combo |-> eval.cards]]
  /\ UNCHANGED <<table, h, w, ev, now, db>>

EvaluateBest ==
  /\ eval.fn = ""
  /\ eval.hole # <<>>
  /\ eval' = [eval EXCEPT !.fn = "evaluate_best_hand",
                          !.out = evaluate_best_hand(eval.cards, eval.hole)]
  /\ UNCHANGED <<table, h, w, ev, now, db>>

NextEval == Evaluate5 \/ EvaluateBest

SpecEval == InitEval /\ [][NextEval]_vars

\* ------------------------------------------- claims about the evaluator
\* The rank and the suit of a card read off its code without parse_card: the
\* rank is the place of the code's front part in RANKS, counted from 2.
RankOf(c) == 1 + (CHOOSE i \in DOMAIN RANKS : RANKS[i] = SubSeq(c, 1, Len(c) - 1))

SuitOf(c) == c[Len(c)]

HandRanks(cs) == {RankOf(cs[i]) : i \in DOMAIN cs}

OfRank(cs, r) == Cardinality({i \in DOMAIN cs : RankOf(cs[i]) = r})

OneSuit(cs) == \A i, j \in DOMAIN cs : SuitOf(cs[i]) = SuitOf(cs[j])

\* Five ranks in a row, the ace counting as 1 below the 2 or as 14.
InARow(cs) ==
  \E top \in 5..14 :
    HandRanks(cs) = {IF r = 1 THEN 14 ELSE r : r \in (top - 4)..top}

\* The pattern of each category of poker hands.
Pattern(cs, c) ==
  CASE c = 9 -> OneSuit(cs) /\ HandRanks(cs) = 10..14
    [] c = 8 -> OneSuit(cs) /\ InARow(cs)
    [] c = 7 -> \E r \in HandRanks(cs) : OfRank(cs, r) = 4
    [] c = 6 -> \E r, q \in HandRanks(cs) : OfRank(cs, r) = 3 /\ OfRank(cs, q) = 2
    [] c = 5 -> OneSuit(cs)
    [] c = 4 -> InARow(cs)
    [] c = 3 -> \E r \in HandRanks(cs) : OfRank(cs, r) >= 3
    [] c = 2 -> \E r, q \in HandRanks(cs) :
                  r # q /\ OfRank(cs, r) >= 2 /\ OfRank(cs, q) >= 2
    [] c = 1 -> \E r \in HandRanks(cs) : OfRank(cs, r) >= 2
    [] OTHER -> TRUE

StandardCategory(cs) ==
  CHOOSE c \in 0..9 : Pattern(cs, c) /\ \A d \in (c + 1)..9 : ~Pattern(cs, d)

\* C17: evaluate_5card_hand gives five distinct cards the standard category,
\* the highest one among 9 royal flush, 8 straight flush, 7 four of a kind,
\* 6 full house, 5 flush, 4 straight, 3 three of a kind, 2 two pair,
\* 1 one pair and 0 high card whose pattern the cards satisfy.
C17_StandardCategory ==
  eval.fn = "evaluate_5card_hand" =>
    eval.out.cat = StandardCategory(eval.cards)

\* A full house, which also has the patterns of three of a kind, two pair
\* and one pair, has been evaluated.
C17_Witness ==
  /\ eval.fn = "evaluate_5card_hand"
  /\ eval.out.cat = 6
  /\ Pattern(eval.cards, 3) /\ Pattern(eval.cards, 2) /\ Pattern(eval.cards, 1)

IsWheel(cs) == HandRanks(cs) = {14, 2, 3, 4, 5}

\* C18: five cards of the ranks A, 2, 3, 4, 5 that are not all of one suit
\* get category 4 and the key (5); every other straight has a greater key;
\* and the board 3C 4S 5H 9D KC with the hole cards AH 2D gets category 4 and
\* the key (5) from evaluate_best_hand.
C18_WheelIsFiveHigh ==
  /\ eval.fn = "evaluate_5card_hand" /\ IsWheel(eval.cards) /\ ~OneSuit(eval.cards)
       => eval.out.cat = 4 /\ eval.out.key = <<5>>
  /\ eval.fn = "evaluate_5card_hand" /\ eval.out.cat = 4 /\ ~IsWheel(eval.cards)
       => tuple_gt(eval.out.key, <<5>>)
  /\ eval.fn = "evaluate_best_hand" /\ eval.cards = ExampleBoard /\ eval.hole = ExampleHole
       => eval.out.cat = 4 /\ eval.out.key = <<5>>

\* evaluate_best_hand has answered for the example, picking the wheel.
C18_Witness ==
  /\ eval.fn = "evaluate_best_hand"
  /\ eval.cards = ExampleBoard
  /\ eval.hole = ExampleHole
  /\ eval.out.cat = 4
  /\ IsWheel(eval.out.combo)

\* ------------------------------------------------ claims about the pot
ChipsOf(t) == SumSeq([i \in Ids(t) |-> t.players[i].chips], Len(t.players))

\* C19: the pot of a hand is credited at most once: from the hand dealt to
\* the river on, whatever actions and watchdog sweeps occur, sweeps after
\* SHOWDOWN included, the players' chips never sum to more than chips plus
\* pot at the start of the hand, here the stacks the three players sat down
\* with.
C19_PotCreditedOnce ==
  ChipsOf(table) <= Cardinality(RiverSeats) * DEFAULT_STARTING_CHIPS

\* ------------------------------------------- three players before the flop
\* Three players with two bets of BetUnit each have sat down and a hand has
\* been started: the hole cards are dealt, nobody has bet, the first of the
\* turn order is to act.
InitThree ==
  /\ \E order \in Perms(RiverSeats) :
       LET t0 == [NewTable EXCEPT
                    !.players = [i \in RiverSeats |-> Player(2 * BetUnit, 0)],
                    !.hands_played = 1]
       IN table = deal_hole_cards(reset_for_new_hand(t0, order))
  /\ h = HIdle
  /\ w = WIdle
  /\ ev = Event("resume_start", None, "accepted")
  /\ now = 0
  /\ db = [i \in RiverSeats |-> NewRow]
  /\ eval = NoEval

\* The three press Call, Fold, a raise by BetUnit or All-in.
NextThree ==
  \/ \E u \in RiverSeats, kind \in {"call", "fold"} : ActButton(u, kind)
  \/ \E u \in RiverSeats : RaiseButton(u, [kind |-> "raise", amt |-> BetUnit])
  \/ \E u \in RiverSeats : RaiseButton(u, [kind |-> "raise_allin", amt |-> 0])
  \/ ResumeLoop
  \/ ResumeBoard

SpecThree == InitThree /\ [][NextThree]_vars

\* ------------------------------------------------ claims about the turn
\* The players in turn order from the one after u round to u.
AfterInOrder(t, u) ==
  LET n == Len(t.turn_order)
      p == CHOOSE k \in 1..n : t.turn_order[k] = u
  IN  [k \in 1..n |-> t.turn_order[((p - 1 + k) % n) + 1]]

\* The first player after u in cyclic turn order who has not folded and has
\* chips, or None.
FirstEligibleAfter(t, u) ==
  LET after == AfterInOrder(t, u)
      hits == {k \in DOMAIN after : Eligible(t, after[k])}
  IN  IF hits = {} THEN None ELSE after[FirstHit(hits)]

\* A step in which handle_action took an action of a player of the turn
\* order, ran to its end and left the hand in progress.
ActedOn ==
  /\ ev'.op \in {"call", "fold", "raise", "raise_allin"}
  /\ ev'.result = "accepted"
  /\ h' = HIdle
  /\ table'.stage \in BettingStages
  /\ ev'.who \in Range(table'.turn_order)

\* C20: after an accepted action that leaves the hand in progress, the player
\* whose action the table takes next is the first player after the actor in
\* cyclic turn order who has not folded and has chips: no such player is
\* skipped, also when the actor has just folded or gone all-in at a table of
\* three players.
C20_NextAfterActor ==
  [][ActedOn => current_player_id(table') = FirstEligibleAfter(table', ev'.who)]_vars

\* C20 for an actor who can still bet after the action.
C20_NextAfterBettingActor ==
  [][ActedOn /\ Eligible(table', ev'.who)
       => current_player_id(table') = FirstEligibleAfter(table', ev'.who)]_vars

\* --------------------------------------- claims about the betting round
\* A step of advance_stage_if_needed that dealt a street or moved RIVER to
\* SHOWDOWN with two or more players who have not folded.
RoundClosed ==
  /\ ev'.op = "advance_stage_if_needed"
  /\ table'.stage # table.stage
  /\ Cardinality(active_players(table)) >= 2

\* C21: a betting round never closes over an unmatched bet: when
\* advance_stage_if_needed deals the next street or moves RIVER to SHOWDOWN
\* with two or more non-folded players, every non-folded player with chips
\* has a current bet equal to the table's current bet level.
C21_NoUnmatchedClose ==
  [][RoundClosed =>
       \A i \in active_players(table) :
         table.players[i].chips > 0
           => table.players[i].current_bet = table.current_bet]_vars

\* The players who have not folded and have chips.
EligiblePlayers(t) == {i \in Ids(t) : Eligible(t, i)}

\* A betting round has just opened and nobody has acted in it: the hand has
\* just been dealt, or the last step dealt a street and its handler is done.
RoundJustOpened ==
  /\ h = HIdle
  /\ table.stage \in BettingStages
  /\ ev.result = "accepted"
  /\ ev.op = "resume_start" \/ (ev.op \in HandlerOps /\ ev.path # <<>>)

\* C22: within a betting round that has two or more players who have not
\* folded and have chips, the stage advances only after each of them has
\* acted at least once in the round.  After the first action of a round one
\* player at most has acted, so that action must leave the stage as it is.
C22_EveryoneActsFirst ==
  [][(/\ RoundJustOpened
      /\ Cardinality(EligiblePlayers(table)) >= 2
      /\ ev'.op \in {"call", "fold", "raise", "raise_allin"}
      /\ ev'.result = "accepted")
       => table'.stage = table.stage]_vars

\* ------------------------------------------- a hand that nobody plays
\* Three players sit at the table, seated at time 0; no hand has been started.
IdleInit ==
  /\ table = [NewTable EXCEPT
                !.players = [i \in RiverSeats |-> Player(DEFAULT_STARTING_CHIPS, 0)]]
  /\ h = HIdle
  /\ w = WIdle
  /\ ev = Event("join", None, "accepted")
  /\ now = 0
  /\ db = [i \in RiverSeats |-> NewRow]
  /\ eval = NoEval

\* The clock a run reads when the job keeps running for ever: TimeStep after
\* the run before.  Every timestamp of this table is 0, so from
\* MaxSweeps * TimeStep >= AFK_KICK_SECONDS on every reading finds the same
\* players idle for AFK_KICK_SECONDS or more, and the reading is kept there.
IdleNow == IF w.pc = 0 THEN Min(now + TimeStep, MaxSweeps * TimeStep) ELSE now

\* handle_start_hand at time 0.
IdleStart == now = 0 /\ StartHand

IdleFold == FoldAt(IdleNow)

IdleWarn == WarnAt(IdleNow)

IdleResolve == ResolveAt(IdleNow)

IdleWatchdog == IdleFold \/ IdleWarn \/ IdleResolve

\* A hand is started and nobody presses a button afterwards.
IdleNext ==
  \/ IdleStart
  \/ ResumeStart
  \/ IdleFold
  \/ IdleWarn
  \/ IdleResolve

\* The job queue runs afk_watcher_job again and again, and a handler that
\* awaits a post is resumed.
SpecIdle ==
  IdleInit /\ [][IdleNext]_vars /\ WF_vars(IdleWatchdog) /\ WF_vars(ResumeStart)

\* C23: hands resolve without player input: when the watchdog keeps running
\* and time advances, every hand started by handle_start_hand eventually
\* reaches SHOWDOWN, even if no player ever acts again.
C23_HandsResolve == (table.stage = "PREFLOP") ~> (table.stage = "SHOWDOWN")

\* ---------------------------------------------- claims about the watchdog
WatchdogOps == {"afk_fold", "afk_warn", "afk_quiet", "afk_default_win", "afk_advance"}

\* C24: the watchdog only acts on hands in progress: on a table whose stage
\* is WAITING_FOR_PLAYERS or SHOWDOWN a step of a sweep folds nobody, changes
\* no stack and not the pot, records no result and leaves the stage.
C24_WatchdogOnlyInHand ==
  [][(ev'.op \in WatchdogOps /\ table.stage \in {"WAITING_FOR_PLAYERS", "SHOWDOWN"}) =>
       /\ Ids(table') = Ids(table)
       /\ \A i \in Ids(table) :
            /\ table'.players[i].folded = table.players[i].folded
            /\ table'.players[i].chips = table.players[i].chips
       /\ table'.pot = table.pot
       /\ table'.stage = table.stage
       /\ db' = db]_vars

\* ---------------------------------------------- claims about the players
\* C25: the set of players is fixed during a hand: while the stage is
\* PREFLOP, FLOP, TURN or RIVER the identities in turn_order are exactly the
\* seated players, and every seated player who has not folded holds two hole
\* cards: a join during a hand adds no participant to it.
C25_PlayersFixedInHand ==
  table.stage \in BettingStages =>
    /\ Range(table.turn_order) = Ids(table)
    /\ \A i \in active_players(table) : table.players[i].hole_cards = 2

\* ------------------------------------------- a start during a hand
\* New Hand pressed once more after the hand that is dealt.
Restart == table.hands_played <= MaxHands /\ StartNow

\* The two players of the hand press their buttons, or New Hand.
NextRestart == NextB \/ Restart \/ ResumeStart

SpecRestart == InitB /\ [][NextRestart]_vars

\* C26: starting a new hand never destroys chips: handle_start_hand does not
\* run reset_for_new_hand while a hand is in progress with unawarded chips in
\* the pot, so the players' chips right after a hand start sum to no less
\* than chips plus unawarded pot right before it.
C26_StartKeepsChips ==
  [][(ev'.op = "start_hand" /\ table.stage \in BettingStages)
       => ChipsOf(table') >= ChipsOf(table) + table.pot]_vars

\* --------------------------------------- claims about the stage advance
\* C27: advance_stage_if_needed is a no-op when the round is not complete:
\* stage, community cards, deck, pot, every player's chips and bet, the
\* table bet level and the turn index are unchanged.
C27_AdvanceNoOp ==
  [][(ev'.op = "advance_stage_if_needed" /\ ~everyone_matched_or_folded(table)) =>
       /\ table'.stage = table.stage
       /\ table'.community_cards = table.community_cards
       /\ table'.deck = table.deck
       /\ table'.pot = table.pot
       /\ table'.current_bet = table.current_bet
       /\ table'.current_turn_idx = table.current_turn_idx
       /\ \A i \in Ids(table) :
            /\ table'.players[i].chips = table.players[i].chips
            /\ table'.players[i].current_bet = table.players[i].current_bet]_vars

\* C27, reached: advance_stage_if_needed has been called over a bet that a
\* player with chips has not matched, and has dealt nothing.
C27_Witness ==
  /\ ev.op = "advance_stage_if_needed"
  /\ ev.path = <<>>
  /\ ~everyone_matched_or_folded(table)
  /\ table.pot > 0
  /\ table.stage = "PREFLOP"

\* C28: when exactly one player has not folded, advance_stage_if_needed sets
\* the stage to SHOWDOWN from any betting stage and leaves the community
\* cards, the deck, the pot and all bets as they are.
C28_LastPlayerShowdown ==
  [][(/\ ev'.op = "advance_stage_if_needed"
      /\ Cardinality(active_players(table)) = 1
      /\ table.stage \in BettingStages) =>
       /\ table'.stage = "SHOWDOWN"
       /\ table'.community_cards = table.community_cards
       /\ table'.deck = table.deck
       /\ table'.pot = table.pot
       /\ table'.current_bet = table.current_bet
       /\ \A i \in Ids(table) :
            table'.players[i].current_bet = table.players[i].current_bet]_vars

\* C28, reached: the last player standing has been moved to SHOWDOWN from
\* the flop with chips in the pot and an open bet, and the board is as it was.
C28_Witness ==
  /\ ev.op = "advance_stage_if_needed"
  /\ ev.path = <<"SHOWDOWN">>
  /\ Cardinality(active_players(table)) = 1
  /\ table.community_cards = 3
  /\ table.pot > 0
  /\ table.current_bet > 0

\* ------------------------------------------------ claims about the bets
\* What raise_bet(ev'.who, ev'.asked) has to pay on the table before the step.
RaisePays ==
  LET p == table.players[ev'.who]
      to_call == table.current_bet - p.current_bet
  IN IF to_call + ev'.asked <= p.chips THEN to_call + ev'.asked ELSE p.chips

\* C29: raise_bet(player, amount) with amount >= 0 moves exactly
\* min(toCall + amount, chips) from the player's stack into the pot and adds
\* it to the player's bet, toCall being the table bet level minus the
\* player's bet; the table bet level becomes the player's new bet if that is
\* higher and is otherwise unchanged: a capped raise never lowers the level
\* and never raises it above the raiser's own bet.
C29_RaiseBet ==
  [][ev'.op = "raise_bet" =>
       LET u == ev'.who
           bet == table.players[u].current_bet + RaisePays
       IN /\ ev'.added = RaisePays
          /\ table'.players[u].chips = table.players[u].chips - RaisePays
          /\ table'.players[u].current_bet = bet
          /\ table'.pot = table.pot + RaisePays
          /\ table'.current_bet = (IF bet > table.current_bet THEN bet
                                   ELSE table.current_bet)
          /\ table'.current_bet >= table.current_bet
          /\ table'.current_bet > table.current_bet => table'.current_bet = bet]_vars

\* C29, reached: a raise by BetUnit over an open bet was capped by the stack:
\* it took the whole stack, and the raiser's bet is still below the bet level
\* of the table, which has not moved down to it.
C29_Witness ==
  /\ ev.op = "raise_bet"
  /\ ev.asked = BetUnit
  /\ ev.added = BetUnit
  /\ table.players[ev.who].chips = 0
  /\ table.players[ev.who].current_bet = BetUnit
  /\ table.current_bet = 2 * BetUnit

\* What check_or_call(ev'.who) has to pay on the table before the step.
CallPays ==
  LET p == table.players[ev'.who]
      to_call == table.current_bet - p.current_bet
  IN IF to_call <= p.chips THEN to_call ELSE p.chips

\* C30: check_or_call(player) returns 0 and changes nothing when the player's
\* bet already matches the table bet level; otherwise it moves exactly
\* min(toCall, chips) from the player's stack into the pot and the player's
\* bet, returns that amount, leaves the table bet level and every other
\* player unchanged, and after a call the stack did not cap the player's bet
\* equals the table bet level.
C30_CheckOrCall ==
  [][ev'.op = "check_or_call" =>
       LET u == ev'.who
           p == table.players[u]
       IN IF p.current_bet = table.current_bet
          THEN ev'.added = 0 /\ table' = table
          ELSE /\ ev'.added = CallPays
               /\ table'.players[u].chips = p.chips - CallPays
               /\ table'.players[u].current_bet = p.current_bet + CallPays
               /\ table'.pot = table.pot + CallPays
               /\ table'.current_bet = table.current_bet
               /\ Ids(table') = Ids(table)
               /\ \A i \in Ids(table) \ {u} : table'.players[i] = table.players[i]
               /\ table.current_bet - p.current_bet <= p.chips
                    => table'.players[u].current_bet = table'.current_bet]_vars

\* C30, reached: a call of BetUnit that the stack covered with chips to spare
\* has brought the caller's bet to the bet level of the table, while another
\* player holds the stack and the bet they had.
C30_Witness ==
  /\ ev.op = "check_or_call"
  /\ ev.added = BetUnit
  /\ table.players[ev.who].chips = BetUnit
  /\ table.players[ev.who].current_bet = table.current_bet
  /\ table.pot = 2 * BetUnit
  /\ \E i \in Ids(table) \ {ev.who} : table.players[i].current_bet = BetUnit

\* ------------------------------------------------ the turn order, driven
\* directly
\* A table in a hand: every seat folded or not, with chips or all-in, every
\* shuffle of the seats and the index anywhere in it.
InitTurn ==
  /\ \E stacks \in [RiverSeats -> {0, BetUnit}], folds \in [RiverSeats -> BOOLEAN],
        order \in Perms(RiverSeats), idx \in 0..(Cardinality(RiverSeats) - 1) :
       LET t0 == [NewTable EXCEPT
                    !.players = [i \in RiverSeats |-> Player(stacks[i], 0)]]
           t1 == deal_hole_cards(reset_for_new_hand(t0, order))
       IN table = [t1 EXCEPT
                     !.players = [i \in RiverSeats |->
                                    [t1.players[i] EXCEPT !.folded = folds[i]]],
                     !.current_turn_idx = idx]
  /\ h = HIdle
  /\ w = WIdle
  /\ ev = Event("reset_for_new_hand", None, "accepted")
  /\ now = 0
  /\ db = [i \in RiverSeats |-> NewRow]
  /\ eval = NoEval

TurnNext ==
  /\ table' = next_turn(table)
  /\ ev' = Event("next_turn", next_turn_id(table), "accepted")
  /\ UNCHANGED <<h, w, now, db, eval>>

TurnCurrent ==
  /\ table' = current_player(table)
  /\ ev' = Event("current_player_id", current_player_id(table), "accepted")
  /\ UNCHANGED <<h, w, now, db, eval>>

TurnFold(u) ==
  /\ table' = fold(table, u)
  /\ ev' = Event("fold", u, "accepted")
  /\ UNCHANGED <<h, w, now, db, eval>>

NextTurn == TurnNext \/ TurnCurrent \/ \E u \in RiverSeats : TurnFold(u)

SpecTurn == InitTurn /\ [][NextTurn]_vars

\* The position k places after the current index of the table, wrapping.
PosAfter(k) == (table.current_turn_idx + k) % Len(table.turn_order)

\* C31: next_turn examines at most len(turn_order) positions starting just
\* after the current index and wrapping around, the current position last;
\* it returns the first player found that is non-folded with chips > 0 and
\* sets the current index to that position; if there is none it returns no
\* player and the index ends where it started. It never returns a folded or
\* zero-chip player.
C31_NextTurn ==
  [][ev'.op = "next_turn" =>
       LET n == Len(table.turn_order)
           fit(k) == LET p == table.players[table.turn_order[PosAfter(k) + 1]]
                     IN ~p.folded /\ p.chips > 0
       IN /\ table' = [table EXCEPT !.current_turn_idx = table'.current_turn_idx]
          /\ IF \E k \in 1..n : fit(k)
             THEN \E k \in 1..n :
                    /\ fit(k)
                    /\ \A j \in 1..(k - 1) : ~fit(j)
                    /\ table'.current_turn_idx = PosAfter(k)
                    /\ ev'.who = table.turn_order[PosAfter(k) + 1]
             ELSE ev'.who = None /\ table'.current_turn_idx = table.current_turn_idx
          /\ ev'.who # None =>
               ~table.players[ev'.who].folded /\ table.players[ev'.who].chips > 0]_vars

\* C31, reached: next_turn stopped at the only player fit to act, the others
\* being a folded player and a player who is all-in.
C31_Witness ==
  /\ ev.op = "next_turn"
  /\ ev.who # None
  /\ table.turn_order[table.current_turn_idx + 1] = ev.who
  /\ table.current_turn_idx = 1
  /\ \A i \in Ids(table) \ {ev.who} : table.players[i].folded \/ table.players[i].chips = 0
  /\ \E i \in Ids(table) : table.players[i].folded
  /\ \E i \in Ids(table) : ~table.players[i].folded /\ table.players[i].chips = 0

\* ------------------------------------------------ claims about the deals
\* The cards a street takes from the deck and the cards it reveals.
StreetCards(stage) ==
  IF stage = "FLOP" THEN <<4, 3>> ELSE <<2, 1>>

\* C32: each street deal burns one card and reveals the street: deal_flop
\* removes 4 cards from the deck and adds 3 community cards, deal_turn and
\* deal_river each remove 2 and add 1; each of them sets the table bet level
\* and the bet of every player, folded or not, to 0 and leaves pot, chips and
\* folded flags unchanged.
C32_StreetDeals ==
  [][(/\ ev'.op = "advance_stage_if_needed"
      /\ table'.stage # table.stage
      /\ table'.stage \in {"FLOP", "TURN", "RIVER"}) =>
       /\ table'.deck = table.deck - StreetCards(table'.stage)[1]
       /\ table'.community_cards = table.community_cards + StreetCards(table'.stage)[2]
       /\ table'.current_bet = 0
       /\ table'.pot = table.pot
       /\ Ids(table') = Ids(table)
       /\ \A i \in Ids(table) :
            /\ table'.players[i].current_bet = 0
            /\ table'.players[i].chips = table.players[i].chips
            /\ table'.players[i].folded = table.players[i].folded]_vars

\* C32, reached: the river has been dealt after the flop and the turn, 8 cards
\* are gone from the deck after the hole cards, the pot holds chips and no bet
\* is left standing.
C32_Witness ==
  /\ ev.op = "advance_stage_if_needed"
  /\ ev.path = <<"RIVER">>
  /\ table.community_cards = 5
  /\ table.deck = DECK_SIZE - 2 * Len(table.players) - 8
  /\ table.pot > 0
  /\ table.current_bet = 0
  /\ \A i \in Ids(table) : table.players[i].current_bet = 0


\* ------------------------------------------------ the watchdog, run by run
\* The clock a run of the job reads BriefStep after the run before.
BriefNow == IF w.pc = 0 THEN now + BriefStep ELSE now

\* The runs of the job until the first one that finds a player who never
\* pressed anything idle for AFK_KICK_SECONDS.
BriefFold == BriefNow < AFK_KICK_SECONDS + BriefStep /\ FoldAt(BriefNow)

BriefWarn == BriefNow < AFK_KICK_SECONDS + BriefStep /\ WarnAt(BriefNow)

BriefResolve == BriefNow < AFK_KICK_SECONDS + BriefStep /\ ResolveAt(BriefNow)

\* Three players on the river who check or fold, or do nothing, while the
\* job runs.
NextBrief ==
  \/ \E u \in RiverSeats, kind \in {"call", "fold"} : ActButton(u, kind)
  \/ BriefFold
  \/ BriefWarn
  \/ BriefResolve

SpecBrief == InitRiver /\ [][NextBrief]_vars

\* ------------------------------------------------ claims about the watchdog
\* How long player i has been idle when the run of the step reads the clock.
Inactivity(i) == now' - table.players[i].last_action_time

\* The run of the step leaves player i as they were, neither folded nor
\* warned.
Untouched(i) ==
  /\ table'.players[i].folded = table.players[i].folded
  /\ table'.players[i].afk_warned = table.players[i].afk_warned

\* The players the run of the step goes past without folding or warning them,
\* up to position `last`.
PassedOver(last) == {i \in Sweep.pc..last : i # ev'.who}

\* The run of the step had no reason to fold or warn player i.
NothingDue(i) ==
  \/ table.players[i].folded
  \/ Inactivity(i) < AFK_WARNING_SECONDS
  \/ Inactivity(i) < AFK_KICK_SECONDS /\ table.players[i].afk_warned

\* C33: the decision of the watchdog per player in one sweep: a non-folded
\* player (every seated player has the timestamp join_table gave) is folded,
\* and not warned, if inactivity >= 300 s; is warned and marked warned if
\* 120 s <= inactivity < 300 s and not yet marked warned; and is otherwise
\* untouched. Folded players are never folded or warned, and a forced fold
\* changes neither the player's chips nor the pot.
C33_WatchdogDecision ==
  [][ev'.op \in WatchdogOps =>
       /\ ev'.op = "afk_fold" =>
            /\ ~table.players[ev'.who].folded
            /\ Inactivity(ev'.who) >= AFK_KICK_SECONDS
            /\ table' = [table EXCEPT !.players[ev'.who].folded = TRUE]
            /\ \A i \in PassedOver(ev'.who) : NothingDue(i)
       /\ ev'.op = "afk_warn" =>
            /\ ~table.players[ev'.who].folded
            /\ Inactivity(ev'.who) >= AFK_WARNING_SECONDS
            /\ Inactivity(ev'.who) < AFK_KICK_SECONDS
            /\ ~table.players[ev'.who].afk_warned
            /\ table' = [table EXCEPT !.players[ev'.who].afk_warned = TRUE]
            /\ \A i \in PassedOver(ev'.who) : NothingDue(i)
       /\ ev'.op \notin {"afk_fold", "afk_warn"} =>
            /\ \A i \in Sweep.pc..Sweep.n : NothingDue(i)
            /\ \A i \in Ids(table) : Untouched(i)]_vars

\* C33, reached: a run folds a player idle for AFK_KICK_SECONDS whom an
\* earlier run warned, over a pot that holds chips, after it went past a
\* player it had warned before and a player who pressed a button a short while
\* ago.
C33_Witness ==
  /\ ev.op = "afk_fold"
  /\ ev.who = 3
  /\ table.pot > 0
  /\ table.players[3].afk_warned
  /\ now - table.players[3].last_action_time >= AFK_KICK_SECONDS
  /\ ~table.players[1].folded /\ table.players[1].afk_warned
  /\ now - table.players[1].last_action_time > AFK_WARNING_SECONDS
  /\ ~table.players[2].folded /\ ~table.players[2].afk_warned
  /\ now - table.players[2].last_action_time < AFK_WARNING_SECONDS

\* ------------------------------------------------ the watchdog, with a log
\* of its warnings
\* The clock a run of the job reads TimeStep after the run before.
LateNow == IF w.pc = 0 THEN now + TimeStep ELSE now

\* The runs of the job up to the time (MaxSweeps + 1) * TimeStep, which is
\* AFK_KICK_SECONDS after a button pressed at the first run.
LateFold == LateNow <= (MaxSweeps + 1) * TimeStep /\ FoldAt(LateNow)

LateWarn == LateNow <= (MaxSweeps + 1) * TimeStep /\ WarnLogged(LateNow)

LateResolve == LateNow <= (MaxSweeps + 1) * TimeStep /\ ResolveAt(LateNow)

\* Three players on the river who check or fold, in turn or out of turn, or
\* do nothing, while the job runs.
NextLate ==
  \/ \E u \in RiverSeats, kind \in {"call", "fold"} : ActButton(u, kind)
  \/ LateFold
  \/ LateWarn
  \/ LateResolve

SpecLate == InitRiver /\ [][NextLate]_vars

\* C34: no forced fold without warning: every forced fold of a player by the
\* watchdog is preceded by a warning to that player that was posted after the
\* player's most recent activity, the most recent update of their
\* last_action_time.
C34_WarnedBeforeFold ==
  [][ev'.op = "afk_fold" =>
       \E wn \in Sweep.warnings :
         /\ wn[1] = ev'.who
         /\ wn[2] > table.players[ev'.who].last_action_time]_vars

\* ------------------------------------------------ buttons the keyboards do
\* not offer
\* button_handler lines 970-982 with callback data "act:<kind>" of a kind
\* handle_action has no branch for.
OtherButton(u) == ActButton(u, "other")

\* button_handler lines 934-945 with callback data "raiseamt:<text>" where
\* int(text) fails: a reply and a return, after the timestamp of line 620.
MalformedRaise(u) ==
  /\ h.pc = "idle"
  /\ UNCHANGED <<w, now, eval>>
  /\ Reject(Pressed(table, u), u, "invalid_amount")

NextOdd ==
  \/ NextThree
  \/ \E u \in RiverSeats : OtherButton(u)
  \/ \E u \in RiverSeats : MalformedRaise(u)

SpecOdd == InitThree /\ [][NextOdd]_vars

\* C35: an action of unknown kind or with a malformed raise amount, submitted
\* by the current player, is rejected without mutating the table: chips, pot,
\* bets, folded flags, stage, community cards and current turn index are
\* unchanged and the turn does not pass to another player.
C35_OddActionRejected ==
  [][(/\ ev'.op = "other" \/ ev'.result = "invalid_amount"
      /\ table.stage \in BettingStages
      /\ current_player_id(table) = ev'.who) =>
       /\ Ledger(table') = Ledger(table)
       /\ table'.current_turn_idx = table.current_turn_idx
       /\ current_player_id(table') = ev'.who]_vars

\* ------------------------------------------------ the watchdog when posts
\* and records fail
\* How a send_message of the job ends.
Notices == {"accepted", "send_failed"}

FailFold ==
  /\ SweepNow <= MaxSweeps * TimeStep
  /\ \E notice \in Notices : Fold(SweepNow, notice)

FailWarn ==
  /\ SweepNow <= MaxSweeps * TimeStep
  /\ \E notice \in Notices : Warn(SweepNow, Sweep.warnings, notice)

FailResolve ==
  /\ SweepNow <= MaxSweeps * TimeStep
  /\ \E done \in 0..Len(table.players), notice \in Notices :
       Resolve(SweepNow, done, notice)

\* Three players on the river who check or fold, or do nothing, while the
\* job runs and its posts and records may fail.
NextFail ==
  \/ \E u \in RiverSeats, kind \in {"call", "fold"} : ActButton(u, kind)
  \/ FailFold
  \/ FailWarn
  \/ FailResolve

SpecFail == InitRiver /\ [][NextFail]_vars

EngineReset ==
  /\ \E order \in Perms(Ids(table)) :
       /\ table' = reset_for_new_hand(table, order)
       /\ ev' = Staged(Event("reset_for_new_hand", None, "accepted"),
                       table.stage, "PREFLOP")
  /\ UNCHANGED <<h, w, now, db, eval>>

\* deal_hole_cards, called on the table reset_for_new_hand leaves.
EngineDealHoleCards ==
  /\ table.deck = DECK_SIZE
  /\ table' = deal_hole_cards(table)
  /\ ev' = Event("deal_hole_cards", None, "accepted")
  /\ UNCHANGED <<h, w, now, db, eval>>

NextReset == NextEngine \/ EngineReset \/ EngineDealHoleCards

SpecReset == InitEngine /\ [][NextReset]_vars

\* C37: reset_for_new_hand, from any prior state of a table with at least one
\* player, yields a full 52-card deck, pot 0, table bet level 0, no community
\* cards, every player with bet 0, folded false and no hole cards, turn_order
\* a permutation of the seated player identities (each exactly once), current
\* turn index 0 and stage PREFLOP; every player's chips, the hands-played
\* counter and the table configuration are unchanged.
C37_ResetForNewHand ==
  [][(ev'.op = "reset_for_new_hand" /\ Len(table.players) >= 1) =>
       /\ table'.deck = 52
       /\ table'.pot = 0
       /\ table'.current_bet = 0
       /\ table'.community_cards = 0
       /\ Ids(table') = Ids(table)
       /\ \A i \in Ids(table) :
            /\ table'.players[i].current_bet = 0
            /\ ~table'.players[i].folded
            /\ table'.players[i].hole_cards = 0
            /\ table'.players[i].chips = table.players[i].chips
       /\ Len(table'.turn_order) = Len(table.players)
       /\ \A i \in Ids(table) :
            Cardinality({k \in DOMAIN table'.turn_order : table'.turn_order[k] = i}) = 1
       /\ table'.current_turn_idx = 0
       /\ table'.stage = "PREFLOP"
       /\ table'.hands_played = table.hands_played
       /\ table'.starting_chips = table.starting_chips
       /\ table'.max_hands = table.max_hands
       /\ table'.max_players = table.max_players]_vars

\* C37, reached: a reset on a table that was past PREFLOP, with player 2 first
\* in the new turn order, and both players, who have no chips, back in the
\* hand.
C37_Witness ==
  /\ ev.op = "reset_for_new_hand"
  /\ ev.path = <<"PREFLOP">>
  /\ table.turn_order = <<2, 1>>
  /\ table.pot = 0
  /\ table.deck = DECK_SIZE
  /\ \A i \in Ids(table) : table.players[i].chips = 0 /\ ~table.players[i].folded

\* ------------------------------------------------ the seats and the deck
\* table.deck is the number of cards left in the list; a number below 0 stands
\* for a list.pop() on the empty list, which raises IndexError, and the table
\* is not followed further.
\* The "set_players:<n>" buttons of the setup menu, pressed before anybody sits
\* down.
SeatChoices == {0, 2, 3, 4, 6, 8}

SeatsConfigure(value) ==
  /\ table.deck >= 0
  /\ table.stage = "WAITING_FOR_PLAYERS"
  /\ Len(table.players) = 0
  /\ table' = [table EXCEPT !.max_players = value]
  /\ ev' = Event("set_players", None, "accepted")
  /\ UNCHANGED <<h, w, now, db, eval>>

\* The join_table branch: the only limit is max_players, and 0 is no limit.
SeatsJoin ==
  /\ table.deck >= 0
  /\ table.max_players = 0 \/ Len(table.players) < table.max_players
  /\ Len(table.players) < SeatsMax
  /\ table' = add_player(table, now)
  /\ ev' = Event("join", Len(table.players) + 1, "accepted")
  /\ UNCHANGED <<h, w, now, db, eval>>

\* handle_start_hand lines 1036-1042, with one outcome of the shuffle.
SeatsStart ==
  /\ table.deck >= 0
  /\ table.stage \in {"WAITING_FOR_PLAYERS", "SHOWDOWN"}
  /\ Len(table.players) >= 1
  /\ table.hands_played < MaxHands
  /\ table' = deal_hole_cards(reset_for_new_hand(
                [table EXCEPT !.hands_played = @ + 1], [i \in Ids(table) |-> i]))
  /\ ev' = Event("start_hand", None, "accepted")
  /\ UNCHANGED <<h, w, now, db, eval>>

\* The streets, as the players check round after round.
SeatsAdvance ==
  /\ table.deck >= 0
  /\ table.stage \in BettingStages
  /\ table' = advance_stage_if_needed(table)
  /\ ev' = Staged(Event("advance_stage_if_needed", None, "accepted"),
                  table.stage, advance_stage_if_needed(table).stage)
  /\ UNCHANGED <<h, w, now, db, eval>>

NextSeats ==
  \/ \E value \in SeatChoices : SeatsConfigure(value)
  \/ SeatsJoin
  \/ SeatsStart
  \/ SeatsAdvance

SpecSeats == Init /\ [][NextSeats]_vars

\* C38: deck exhaustion is unreachable: for every number of seated players the
\* table admits (max_players, where 0 means unlimited), dealing two hole cards
\* per player and then the flop, turn and river with their burns never pops
\* from an empty deck.
C38_DeckNeverExhausted == table.deck >= 0

\* The highest bet among the players of t.
MaxBet(t) ==
  CHOOSE b \in {t.players[i].current_bet : i \in Ids(t)} :
    \A i \in Ids(t) : t.players[i].current_bet <= b

\* C39: the bet-level invariant: in every state reachable through
\* reset_for_new_hand, the street deals, fold, check_or_call and raise_bet
\* with amount >= 0, the table's current bet level equals the maximum of all
\* players' current bets, so no player's bet exceeds the table bet level and
\* toCall is never negative.
C39_BetLevelIsMaxBet ==
  /\ table.current_bet = MaxBet(table)
  /\ \A i \in Ids(table) : table.current_bet - table.players[i].current_bet >= 0

\* C39, reached: after a raise the bet level is the bet of the raiser, above
\* the bet of a player who folded behind a lower bet.
C39_Witness ==
  /\ ev.op = "raise_bet"
  /\ table.current_bet = 2 * BetUnit
  /\ table.players[ev.who].current_bet = 2 * BetUnit
  /\ \E i \in Ids(table) :
       table.players[i].folded /\ table.players[i].current_bet = BetUnit

\* ------------------------------------------------ the best hand of seven
\* A board of five cards and two hole cards of BestDeck are about to be
\* evaluated.
InitBest ==
  /\ table = NewTable
  /\ h = HIdle
  /\ w = WIdle
  /\ ev = Event("init", None, "accepted")
  /\ now = 0
  /\ db = <<>>
  /\ \E c \in Range(combinations(BestDeck, 7)) :
       \E p \in 1..7, q \in 1..7 :
         /\ p < q
         /\ eval = [NoEval EXCEPT
                      !.cards = NotIn(c, {c[p], c[q]}),
                      !.hole = <<c[p], c[q]>>]

NextBest == EvaluateBest

SpecBest == InitBest /\ [][NextBest]_vars

Reverse(s) == [i \in 1..Len(s) |-> s[Len(s) + 1 - i]]

\* (a.cat, a.key) comes after (b.cat, b.key) in the lexicographic order:
\* the category first, then the keys element by element.
Better(a, b) ==
  \/ a.cat > b.cat
  \/ /\ a.cat = b.cat
     /\ \/ \E k \in 1..Min(Len(a.key), Len(b.key)) :
             a.key[k] > b.key[k] /\ \A j \in 1..(k - 1) : a.key[j] = b.key[j]
        \/ /\ Len(a.key) > Len(b.key)
           /\ \A j \in 1..Len(b.key) : a.key[j] = b.key[j]

\* C40: evaluate_best_hand(board, hole) returns the lexicographic maximum of
\* (category, key) over all 5-card subsets of the 7 given cards, together with
\* five of the given cards that achieve it; the returned (category, key) does
\* not depend on the order of the cards in board or hole.
C40_BestOfSeven ==
  eval.fn = "evaluate_best_hand" =>
    LET all == eval.cards \o eval.hole
        out == eval.out
        own == evaluate_5card_hand(out.combo)
        turned == evaluate_best_hand(Reverse(eval.hole), Reverse(eval.cards))
    IN /\ Len(out.combo) = 5
       /\ Cardinality(Range(out.combo)) = 5
       /\ Range(out.combo) \subseteq Range(all)
       /\ own.cat = out.cat /\ own.key = out.key
       /\ \A c \in Range(combinations(all, 5)) :
            ~Better(evaluate_5card_hand(c), out)
       /\ turned.cat = out.cat /\ turned.key = out.key

\* C40, reached: the best of seven cards is a pair, taken with kickers that
\* another pair hand among the seven does not have.
C40_Witness ==
  /\ eval.fn = "evaluate_best_hand"
  /\ eval.out.cat = 1
  /\ eval.hole = << <<"K", "C">>, <<"A", "H">> >>
  /\ \E c \in Range(combinations(eval.cards \o eval.hole, 5)) :
       /\ evaluate_5card_hand(c).cat = 1
       /\ evaluate_5card_hand(c).key # eval.out.key
====
